---- MODULE Spec2Model ----
(***************************************************************************)
(* Replay-side fence/queue synchronizer of Dx12ReplayConsumerBase          *)
(* (framework/decode/dx12_replay_consumer_base.cpp).                       *)
(*                                                                         *)
(* Every replayed call is one action.  The helpers ProcessQueueSignal,     *)
(* ProcessQueueWait, ProcessFenceSignal and SignalWaitingQueue are         *)
(* operators that map a synchronizer state to the SET of states the call   *)
(* can return with: the set has more than one element only where the C++   *)
(* has undefined behaviour (the read of `front` after pop_front(), and     *)
(* the use of std::map iterators that a nested call has erased).  A run    *)
(* that the undefined behaviour terminates takes no further step, which a  *)
(* TLA+ behaviour expresses by stuttering.                                 *)
(*                                                                         *)
(* Each returned state carries the log of what the call did (nested calls, *)
(* pops, host waits).  The log is not a variable of the program: the       *)
(* properties of a call are stated over the states and logs the call can   *)
(* return with from each reachable state.                                  *)
(*                                                                         *)
(* The consumer is constructed with the default replay options:            *)
(* sync_queue_submissions is off, so OverrideExecuteCommandLists leaves    *)
(* the synchronizer state alone.                                           *)
(***************************************************************************)
EXTENDS Integers, Sequences, FiniteSets, TLC

\* ----------------------------------------------------------------- bounds
NumFences == 3
NumQueues == 2
MaxValue == 2
NumEvents == 1
MaxPending == 2
MaxEvents == 1

\* nullptr, for DxObjectInfo* and HANDLE arguments
NULL == 0

Fences == 1..NumFences
Queues == 1..NumQueues
Values == 0..MaxValue
Events == 1..NumEvents

VARIABLES
    fences,         \* fence capture id -> D3D12FenceInfo (extra_info of the fence record)
    queues,         \* queue capture id -> D3D12CommandQueueInfo
    event_objects_, \* event ids cached by GetEventObject
    object_info_table_, \* capture id -> DxObjectInfo
    mapped_memory_,     \* memory id -> mapped host pointer
    gpu_va_map_,        \* the entries added by gpu_va_map_.Add
    heap_allocations_,  \* allocation id -> pointer returned by VirtualAlloc
    virtual_memory,     \* pointer -> what VirtualAlloc / VirtualFree did to it
    host_memory,        \* mapped host pointer -> the bytes behind it
    consumer,           \* the consumer object: replaying, aborted or destroyed
    fatal_error_handler_,   \* the callback RaiseFatalError calls, NULL when none is set
    fatal_errors,           \* the messages the callback was called with
    host_events,            \* the host events: handles created, the handle of each cached id, the signaled ones
    wait,                   \* the WaitForSingleObject the replay thread is blocked in
    active_windows_,        \* the windows created for swap chains
    window_handles_,        \* hwnd id -> window handle
    option_map,             \* the OptionsMap of the capture layer: key -> value
    capture_settings        \* the CaptureSettings ProcessOptions fills

\* The synchronizer state, and the object info table with the indexes that
\* record teardown maintains and the memory they act on.
syncVars == <<fences, queues, event_objects_>>

captureVars == <<option_map, capture_settings>>

hostVars == <<fatal_error_handler_, fatal_errors, host_events, wait, active_windows_, window_handles_,
              captureVars>>

objectVars == <<object_info_table_, mapped_memory_, gpu_va_map_, heap_allocations_,
                virtual_memory, host_memory, consumer, hostVars>>

vars == <<fences, queues, event_objects_, object_info_table_, mapped_memory_, gpu_va_map_,
          heap_allocations_, virtual_memory, host_memory, consumer, fatal_error_handler_,
          fatal_errors, host_events, wait, active_windows_, window_handles_, option_map, capture_settings>>

\* ------------------------------------------------------------ data model
\* QueueSyncEventInfo{ is_wait, is_signaled, fence_info, value }
QueueSyncEventInfo(is_wait, is_signaled, fence_info, value) ==
    [is_wait |-> is_wait, is_signaled |-> is_signaled, fence_info |-> fence_info, value |-> value]

\* A fence record before OverrideCreateFence attached a D3D12FenceInfo to it.
NoFenceInfo == [created |-> FALSE, last_signaled_value |-> 0, waiting_objects |-> <<>>]

\* A queue record before OverrideCreateCommandQueue attached a D3D12CommandQueueInfo.
NoQueueInfo ==
    [created |-> FALSE, pending_events |-> <<>>, sync_fence |-> NULL, sync_event |-> NULL,
     sync_value |-> 0]

\* The D3D12FenceInfo of sync_fence_info, the member of a queue's
\* D3D12CommandQueueInfo that stands for its sync fence: it is kept with the
\* fence infos, after those of the capture's fences.
SyncFence(q) == NumFences + q
SyncFences == {SyncFence(q) : q \in Queues}
AllFences == Fences \cup SyncFences

\* D3D12FenceInfo as OverrideCreateFence builds it.
NewFenceInfo(initial_value) ==
    [created |-> TRUE, last_signaled_value |-> initial_value, waiting_objects |-> <<>>]

\* Value-initialised element that std::map::operator[] inserts.
EmptyWaitingObjects == [wait_events |-> <<>>, wait_queues |-> <<>>]

\* The keys of a fence's waiting_objects map.  The map is a function whose
\* domain is the key set; <<>> is the empty map.
Keys(m) == DOMAIN m

\* Mutant: operator[] always yields a fresh element.
MapAt_Fresh(m, k) == [wait_events |-> <<>>, wait_queues |-> <<>>]

\* std::map::operator[]: the element under key k, inserted when absent.
MapAt(m, k) == IF k \in DOMAIN m THEN m[k] ELSE EmptyWaitingObjects

MapPut(m, k, e) == [x \in (DOMAIN m) \cup {k} |-> IF x = k THEN e ELSE m[x]]

\* std::map::erase of the keys in K.
MapErase(m, K) == [x \in (DOMAIN m) \ K |-> m[x]]

SetMin(S) == CHOOSE x \in S : \A y \in S : x <= y

RECURSIVE Ascending(_)
\* The keys of S in the order a std::map iterates them.
Ascending(S) == IF S = {} THEN <<>> ELSE <<SetMin(S)>> \o Ascending(S \ {SetMin(S)})

RECURSIVE SumLen(_, _)
SumLen(f, D) == IF D = {} THEN 0
                ELSE LET x == CHOOSE y \in D : TRUE IN Len(f[x]) + SumLen(f, D \ {x})

\* Number of entries in all queues' pending_events.
TotalPending(qs) == SumLen([q \in Queues |-> qs[q].pending_events], Queues)

RECURSIVE CountEvents(_, _)
CountEvents(m, K) == IF K = {} THEN 0
                     ELSE LET k == CHOOSE y \in K : TRUE
                          IN Len(m[k].wait_events) + CountEvents(m, K \ {k})

RECURSIVE TotalEvents(_, _)
\* Number of events registered in all fences' waiting_objects.
TotalEvents(fs, F) == IF F = {} THEN 0
                      ELSE LET f == CHOOSE y \in F : TRUE
                           IN CountEvents(fs[f].waiting_objects, Keys(fs[f].waiting_objects))
                              + TotalEvents(fs, F \ {f})

RECURSIVE CountQueues(_, _)
CountQueues(m, K) == IF K = {} THEN 0
                     ELSE LET k == CHOOSE y \in K : TRUE
                          IN Len(m[k].wait_queues) + CountQueues(m, K \ {k})

RECURSIVE TotalWaitQueues(_, _)
\* Number of queue pointers registered in all fences' waiting_objects.
TotalWaitQueues(fs, F) == IF F = {} THEN 0
                          ELSE LET f == CHOOSE y \in F : TRUE
                               IN CountQueues(fs[f].waiting_objects, Keys(fs[f].waiting_objects))
                                  + TotalWaitQueues(fs, F \ {f})

\* ------------------------------------------------------------- the log
LogEntry(call, queue, fence, value, key) ==
    [call |-> call, queue |-> queue, fence |-> fence, value |-> value, key |-> key]

\* A synchronizer state threaded through the helpers.
St(fs, qs, lg) == [fences |-> fs, queues |-> qs, log |-> lg]

Logged(s, e) == [s EXCEPT !.log = Append(@, e)]

\* ------------------------------------------------ the synchronizer helpers
RECURSIVE ProcessFenceSignal(_, _, _)
RECURSIVE SignalWaitingQueue(_, _, _, _)
RECURSIVE DrainPendingEvents(_, _)
RECURSIVE NotifyRange(_, _, _, _, _, _, _, _)
RECURSIVE AfterNotify(_, _, _, _, _, _, _, _)

\* What `front.fence_info` and `front.value` yield in SignalWaitingQueue once
\* pop_front() has destroyed the element `front` refers to: the element's old
\* contents when the storage is untouched, or anything else.
FrontAfterPop(front) ==
    {[fence_info |-> front.fence_info, value |-> front.value]}
        \cup {[fence_info |-> f, value |-> v] : f \in Fences \cup {NULL}, v \in Values}

\* Mutant: the first pass marks no entry.
MarkSignaled_None(event_queue, fence_info, value) == event_queue

\* The first pass of SignalWaitingQueue: mark the waits on (fence_info, value).
MarkSignaled(event_queue, fence_info, value) ==
    [n \in 1..Len(event_queue) |->
        IF event_queue[n].is_wait /\ event_queue[n].fence_info = fence_info
                                  /\ event_queue[n].value = value
        THEN [event_queue[n] EXCEPT !.is_signaled = TRUE]
        ELSE event_queue[n]]

\* The while loop of SignalWaitingQueue on queue q.
DrainPendingEvents(s, q) ==
    LET event_queue == s.queues[q].pending_events
    IN IF event_queue = <<>> THEN {s}
       ELSE LET front == Head(event_queue)
                popped == [s EXCEPT !.queues[q].pending_events = Tail(event_queue)]
            IN IF front.is_wait
               THEN IF ~front.is_signaled THEN {s}
                    ELSE DrainPendingEvents(
                             Logged(popped, LogEntry("pop_wait", q, front.fence_info, front.value, 0)), q)
               ELSE LET s1 == Logged(popped, LogEntry("pop_signal", q, front.fence_info, front.value, 0))
                    IN UNION { UNION { DrainPendingEvents(t, q) :
                                   t \in ProcessFenceSignal(
                                       Logged(s1, LogEntry("ProcessFenceSignal", q, rd.fence_info, rd.value, 0)),
                                       rd.fence_info, rd.value) } :
                               rd \in FrontAfterPop(front) }

SignalWaitingQueue(s, queue_info, fence_info, value) ==
    IF queue_info = NULL \/ fence_info = NULL THEN {s}
    ELSE IF ~s.queues[queue_info].created \/ ~s.fences[fence_info].created THEN {s}
    ELSE DrainPendingEvents(
             [s EXCEPT !.queues[queue_info].pending_events = MarkSignaled(@, fence_info, value)],
             queue_info)

\* The WaitForSingleObject loop over one map element's wait_events.
RECURSIVE WaitEvents(_, _, _, _)
WaitEvents(s, info, node, n) ==
    IF n > Len(node.wait_events) THEN s
    ELSE WaitEvents(Logged(s, LogEntry("WaitForSingleObject", NULL, info, node.wait_events[n], node.key)),
                    info, node, n + 1)

\* The loop `for (iter = range_begin; iter != range_end; ++iter)` of
\* ProcessFenceSignal, at element i of the range and queue j of its wait_queues
\* (j = 0: the element has not been entered).  `nodes` is the range as it was
\* when the loop started; nothing is inserted into the map while the loop runs,
\* so a live element still has the contents recorded in `nodes`.  `stale` says
\* that an iterator of this loop refers to an erased element and the loop runs
\* on freed memory.  The result is a set of [st, stale].
NotifyRange(s, info, value, nodes, i, j, range_end, stale) ==
    IF i > Len(nodes) THEN {[st |-> s, stale |-> stale]}
    ELSE LET node == nodes[i]
             live == Keys(s.fences[info].waiting_objects)
         IN IF j = 0
            THEN IF ~stale /\ node.key \notin live
                 THEN \* ++iter moves to the next element still in the map
                      NotifyRange(s, info, value, nodes, i + 1, 0, range_end, stale)
                 ELSE NotifyRange(WaitEvents(s, info, node, 1), info, value, nodes, i, 1, range_end, stale)
            ELSE IF j > Len(node.wait_queues)
            THEN NotifyRange(s, info, value, nodes, i + 1, 0, range_end, stale)
            ELSE LET s1 == Logged(s, LogEntry("SignalWaitingQueue", node.wait_queues[j], info, value, node.key))
                 IN UNION { AfterNotify(t, info, value, nodes, i, j, range_end, stale) :
                                t \in SignalWaitingQueue(s1, node.wait_queues[j], info, value) }

\* Back in the loop after SignalWaitingQueue returned.  A nested
\* ProcessFenceSignal on the same fence may have erased the element `iter`
\* refers to (and with it the wait_queues vector being iterated) or the element
\* range_end refers to: from then on the loop either keeps running on the freed
\* elements or ends.
AfterNotify(t, info, value, nodes, i, j, range_end, stale) ==
    LET live == Keys(t.fences[info].waiting_objects)
        invalidated == ~stale /\ (nodes[i].key \notin live
                                  \/ (range_end # NULL /\ range_end \notin live))
        u == Logged(t, LogEntry("InvalidIterator", NULL, info, value, nodes[i].key))
    IN IF invalidated
       THEN NotifyRange(u, info, value, nodes, i, j + 1, range_end, TRUE)
                \cup {[st |-> u, stale |-> TRUE]}
       ELSE NotifyRange(t, info, value, nodes, i, j + 1, range_end, stale)

\* `waiting_objects.erase(range_begin, range_end)`.  When range_begin was
\* erased by a nested call the erase has undefined behaviour: the elements of
\* the range still in the map are removed, or none is.
EraseRange(r, info, value, first) ==
    LET s == r.st
        m == s.fences[info].waiting_objects
        inRange == {k \in Keys(m) : first <= k /\ k <= value}
        done(K) == [s EXCEPT !.fences[info].waiting_objects = MapErase(m, K)]
    IN IF r.stale \/ first \notin Keys(m)
       THEN {done(inRange), done({})}
       ELSE {done(inRange)}

\* Mutant: the signaled value is not stored.
SetLastSignaled_Skip(s, info, value) == s

\* Mutant: the signaled value is stored only when it is larger.
SetLastSignaled_Max(s, info, value) ==
    IF value > s.fences[info].last_signaled_value
    THEN [s EXCEPT !.fences[info].last_signaled_value = value]
    ELSE s

\* `fence_info->last_signaled_value = value;`, the last statement of
\* ProcessFenceSignal, executed whether or not a waiter was found.
SetLastSignaled(s, info, value) ==
    [s EXCEPT !.fences[info].last_signaled_value = value]

ProcessFenceSignal(s, info, value) ==
    IF info = NULL THEN {s}
    ELSE IF ~s.fences[info].created
    THEN {Logged(s, LogEntry("GFXRECON_LOG_FATAL", NULL, info, value, 0))}
    ELSE LET fence_info == s.fences[info]
             m == fence_info.waiting_objects
         IN IF value \notin Keys(m)
            THEN {SetLastSignaled(s, info, value)}
            ELSE LET range_begin == IF value > fence_info.last_signaled_value
                                    THEN SetMin({k \in Keys(m) : k > fence_info.last_signaled_value})
                                    ELSE value
                     after == {k \in Keys(m) : k > value}
                     range_end == IF after = {} THEN NULL ELSE SetMin(after)
                     range == Ascending({k \in Keys(m) : range_begin <= k /\ k <= value})
                     nodes == [n \in 1..Len(range) |->
                                  [key |-> range[n],
                                   wait_events |-> m[range[n]].wait_events,
                                   wait_queues |-> m[range[n]].wait_queues]]
                 IN UNION { {SetLastSignaled(e, info, value) :
                                 e \in EraseRange(r, info, value, range_begin)} :
                                r \in NotifyRange(s, info, value, nodes, 1, 0, range_end, FALSE) }

\* Mutant: the signal is processed at once even behind pending entries.
ProcessQueueSignal_Immediate(s, queue_info, fence_info, value) ==
    IF queue_info = NULL \/ fence_info = NULL THEN {s}
    ELSE IF ~s.queues[queue_info].created
    THEN {Logged(s, LogEntry("GFXRECON_LOG_FATAL", queue_info, NULL, value, 0))}
    ELSE ProcessFenceSignal(Logged(s, LogEntry("ProcessFenceSignal", NULL, fence_info, value, 0)),
                            fence_info, value)

\* Mutant: the signal entry is appended even to an empty pending_events.
ProcessQueueSignal_Append(s, queue_info, fence_info, value) ==
    IF queue_info = NULL \/ fence_info = NULL THEN {s}
    ELSE IF ~s.queues[queue_info].created
    THEN {Logged(s, LogEntry("GFXRECON_LOG_FATAL", queue_info, NULL, value, 0))}
    ELSE {[s EXCEPT !.queues[queue_info].pending_events =
                        Append(@, QueueSyncEventInfo(FALSE, FALSE, fence_info, value))]}

ProcessQueueSignal(s, queue_info, fence_info, value) ==
    IF queue_info = NULL \/ fence_info = NULL THEN {s}
    ELSE IF ~s.queues[queue_info].created
    THEN {Logged(s, LogEntry("GFXRECON_LOG_FATAL", queue_info, NULL, value, 0))}
    ELSE IF s.queues[queue_info].pending_events = <<>>
    THEN ProcessFenceSignal(Logged(s, LogEntry("ProcessFenceSignal", NULL, fence_info, value, 0)),
                            fence_info, value)
    ELSE {[s EXCEPT !.queues[queue_info].pending_events =
                        Append(@, QueueSyncEventInfo(FALSE, FALSE, fence_info, value))]}

\* Mutant: the wait entry is pushed at the front of pending_events.
ProcessQueueWait_PushFront(s, queue_info, fence_info, value) ==
    IF queue_info = NULL \/ fence_info = NULL THEN {s}
    ELSE IF ~s.queues[queue_info].created \/ ~s.fences[fence_info].created
    THEN {Logged(s, LogEntry("GFXRECON_LOG_FATAL", queue_info, fence_info, value, 0))}
    ELSE IF value > s.fences[fence_info].last_signaled_value
    THEN {[s EXCEPT !.queues[queue_info].pending_events =
                        <<QueueSyncEventInfo(TRUE, FALSE, fence_info, value)>> \o @,
                    !.fences[fence_info].waiting_objects =
                        MapPut(@, value, [MapAt(@, value) EXCEPT !.wait_queues = Append(@, queue_info)])]}
    ELSE {s}

ProcessQueueWait(s, queue_info, fence_info, value) ==
    IF queue_info = NULL \/ fence_info = NULL THEN {s}
    ELSE IF ~s.queues[queue_info].created \/ ~s.fences[fence_info].created
    THEN {Logged(s, LogEntry("GFXRECON_LOG_FATAL", queue_info, fence_info, value, 0))}
    ELSE IF value > s.fences[fence_info].last_signaled_value
    THEN {[s EXCEPT !.queues[queue_info].pending_events =
                        Append(@, QueueSyncEventInfo(TRUE, FALSE, fence_info, value)),
                    !.fences[fence_info].waiting_objects =
                        MapPut(@, value, [MapAt(@, value) EXCEPT !.wait_queues = Append(@, queue_info)])]}
    ELSE {s}

\* HANDLE GetEventObject(event_id, reset): the cached event, or a new one that
\* is cached unless CreateEventA failed.  The result is [event, cache]; an event
\* object is named by the id it is cached under, NULL is the null handle.
GetEventObject(cache, event_id, create_ok) ==
    IF event_id \in cache THEN [event |-> event_id, cache |-> cache]
    ELSE IF create_ok THEN [event |-> event_id, cache |-> cache \cup {event_id}]
    ELSE [event |-> NULL, cache |-> cache]

\* ------------------------------------------------- the object info table
NumObjects == 3
MaxRefCount == 2
MaxBuffers == 2
NumAllocations == 3
NumMappedPointers == 2
NumMemoryIds == 2
NumSubresources == 2
MaxMapCount == 2
MaxAddress == 2
MaxFill == 2

ObjectIds == 1..NumObjects
NumWindowIds == 1
HwndIds == 0..NumWindowIds
Pointers == 1..NumAllocations
HostPointers == 1..NumMappedPointers
MemoryIds == 1..NumMemoryIds
Subresources == 0..(NumSubresources - 1)

\* extra_info == nullptr
NoExtraInfo == [extra_info_type |-> "none"]

\* std::make_unique<D3D12ResourceInfo>()
NewResourceInfo ==
    [extra_info_type |-> "kID3D12ResourceInfo", capture_address_ |-> 0, replay_address_ |-> 0,
     mapped_memory_info |-> <<>>]

\* D3D12HeapInfo with the adopted allocation
NewHeapInfo(external_allocation) ==
    [extra_info_type |-> "kID3D12HeapInfo", external_allocation |-> external_allocation]

\* DxgiSwapchainInfo as SetSwapchainInfo fills it: image_count empty slots
NewSwapchainInfo(image_count) ==
    [extra_info_type |-> "kIDxgiSwapchainInfo", window |-> NULL, hwnd_id |-> 0,
     image_count |-> image_count, images |-> [i \in 1..image_count |-> NULL]]

\* The extra_info of a command queue record and of a fence record: the
\* D3D12CommandQueueInfo and the D3D12FenceInfo they hold are queues[queue]
\* and fences[fence].
CommandQueueInfoOf(q) == [extra_info_type |-> "kID3D12CommandQueueInfo", queue |-> q]
FenceInfoOf(f) == [extra_info_type |-> "kID3D12FenceInfo", fence |-> f]

\* No record under the capture id.
NoObject == [live |-> FALSE, object |-> [interface |-> "none"], ref_count |-> 0, extra_ref |-> 0,
             extra_info |-> NoExtraInfo]

\* The record a successful creating call inserts: ref_count 1, extra_ref 0, no
\* extra_info.  `object` is the driver object: its interface and, for a swap
\* chain, the number of back buffers the driver holds.
NewObject(object) ==
    [live |-> TRUE, object |-> object, ref_count |-> 1, extra_ref |-> 0, extra_info |-> NoExtraInfo]

\* What the object-side calls work on, with the log of what a call did.
World(table, mapped, gpu_va, heaps, vm, mem, fs, qs, events, windows, handles, lg) ==
    [object_info_table_ |-> table, mapped_memory_ |-> mapped, gpu_va_map_ |-> gpu_va,
     heap_allocations_ |-> heaps, virtual_memory |-> vm, host_memory |-> mem,
     fences |-> fs, queues |-> qs, host_events |-> events, active_windows_ |-> windows,
     window_handles_ |-> handles, log |-> lg]

\* A log entry of an object-side call: the call, the record or pointer it is
\* about, and the record's counters when it was made.
ObjectLog(call, id, ref_count, extra_ref) ==
    [call |-> call, id |-> id, ref_count |-> ref_count, extra_ref |-> extra_ref]

\* ---------------------------------------------------- capture settings
\* Option values are strings; those the code reads character by character are
\* sequences of characters.
MaxTrimLen == 4
DigitChars == <<"0", "1", "2", "3", "4", "5", "6", "7", "8", "9">>
TrimChars == {"0", "1", "2", "-", ",", " ", "a"}

\* ::isdigit and ::isspace on the characters of the model
isdigit(c) == \E n \in 1..10 : DigitChars[n] = c
isspace(c) == c = " "

RECURSIVE stoi(_)
\* std::stoi on a string of digits
stoi(value) ==
    IF value = <<>> THEN 0
    ELSE 10 * stoi(SubSeq(value, 1, Len(value) - 1))
             + (CHOOSE n \in 0..9 : DigitChars[n + 1] = value[Len(value)])

\* std::count(range.begin(), range.end(), c)
CountChar(range, c) == Cardinality({n \in 1..Len(range) : range[n] = c})

RECURSIVE GetLines(_, _)
\* The strings successive std::getline(input, line, delim) calls read from s.
GetLines(s, delim) ==
    IF s = <<>> THEN <<>>
    ELSE LET at == {n \in 1..Len(s) : s[n] = delim}
         IN IF at = {} THEN <<s>>
            ELSE <<SubSeq(s, 1, SetMin(at) - 1)>> \o GetLines(SubSeq(s, SetMin(at) + 1, Len(s)), delim)

\* range.erase(std::remove_if(range.begin(), range.end(), ::isspace), range.end())
RemoveWhitespace(range) == SelectSeq(range, LAMBDA c : ~isspace(c))

RECURSIVE SplitRangeValues(_)
\* The loop that splits a range on '-': it stops at an empty value and marks
\* the range invalid at a value that is not a number.
SplitRangeValues(lines) ==
    IF lines = <<>> \/ Head(lines) = <<>> THEN [values |-> <<>>, invalid |-> FALSE]
    ELSE IF \A n \in 1..Len(Head(lines)) : isdigit(Head(lines)[n])
    THEN LET rest == SplitRangeValues(Tail(lines))
         IN [values |-> <<Head(lines)>> \o rest.values, invalid |-> rest.invalid]
    ELSE [values |-> <<>>, invalid |-> TRUE]

\* The checks that end in ranges->emplace_back(trim_range).
EmplaceTrimRange(ranges, trim_range) ==
    IF trim_range.first = 0 THEN ranges
    ELSE LET next_allowed == IF ranges # <<>>
                             THEN ranges[Len(ranges)].first + ranges[Len(ranges)].total
                             ELSE 0
         IN IF trim_range.first >= next_allowed THEN Append(ranges, trim_range) ELSE ranges

\* Mutant: a range is stored without the check against the previous range.
ParseTrimRange_NoOrderCheck(unstripped, ranges) ==
    IF unstripped = <<>> \/ CountChar(unstripped, "-") > 1 THEN ranges
    ELSE LET range == RemoveWhitespace(unstripped)
             split == SplitRangeValues(GetLines(range, "-"))
             values == split.values
         IN IF split.invalid THEN ranges
            ELSE IF Len(values) = 1 /\ CountChar(range, "-") = 0
            THEN IF stoi(values[1]) = 0 THEN ranges
                 ELSE Append(ranges, [first |-> stoi(values[1]), total |-> 1])
            ELSE IF Len(values) = 2 /\ stoi(values[2]) >= stoi(values[1]) /\ stoi(values[1]) # 0
            THEN Append(ranges, [first |-> stoi(values[1]),
                                 total |-> (stoi(values[2]) - stoi(values[1])) + 1])
            ELSE ranges

\* The body of the loop of ParseTrimRangeString for one element of the list.
ParseTrimRange(unstripped, ranges) ==
    IF unstripped = <<>> \/ CountChar(unstripped, "-") > 1 THEN ranges
    ELSE LET range == RemoveWhitespace(unstripped)
             split == SplitRangeValues(GetLines(range, "-"))
             values == split.values
         IN IF split.invalid THEN ranges
            ELSE IF Len(values) = 1
            THEN IF CountChar(range, "-") = 0
                 THEN EmplaceTrimRange(ranges, [first |-> stoi(values[1]), total |-> 1])
                 ELSE ranges
            ELSE IF Len(values) = 2
            THEN LET first == stoi(values[1])
                     last == stoi(values[2])
                 IN IF last >= first
                    THEN EmplaceTrimRange(ranges, [first |-> first, total |-> (last - first) + 1])
                    ELSE ranges
            ELSE ranges

RECURSIVE ParseTrimRanges(_, _)
ParseTrimRanges(lines, ranges) ==
    IF lines = <<>> THEN ranges
    ELSE ParseTrimRanges(Tail(lines), ParseTrimRange(Head(lines), ranges))

\* ParseTrimRangeString(value_string, ranges)
ParseTrimRangeString(value_string, ranges) ==
    IF value_string # <<>> THEN ParseTrimRanges(GetLines(value_string, ","), ranges) ELSE ranges

\* ParseFramesList(value_string, frames): the ranges util::GetFrameRanges reads
\* from a non-empty string are appended; they are kept unparsed here.
ParseFramesList(value_string, frames) ==
    IF value_string # "" THEN frames \o <<[unparsed |-> value_string]>> ELSE frames

\* kDefaultCompressionType of a build with ENABLE_LZ4_COMPRESSION
kDefaultCompressionType == "kLz4"

\* FindOption(options, key, default_value): the value it returns. The entry it
\* erases is erased from the map by ProcessOptions and ProcessLogOptions below.
FindOption(options, key, default_value) ==
    IF key \in DOMAIN options THEN options[key] ELSE default_value

\* gfxrecon::util::ParseBoolString(value_string, default_value)
ParseBoolString(value_string, default_value) ==
    IF value_string \in {"true", "1"} THEN TRUE
    ELSE IF value_string \in {"false", "0"} THEN FALSE
    ELSE default_value

\* atoi: an optional sign, then the digits up to the first other character
atoi(value_string) ==
    LET signed == value_string # <<>> /\ value_string[1] \in {"-", "+"}
        body == IF signed THEN Tail(value_string) ELSE value_string
        digits == {n \in 0..Len(body) : \A m \in 1..n : isdigit(body[m])}
        number == stoi(SubSeq(body, 1, CHOOSE n \in digits : \A m \in digits : m <= n))
    IN IF signed /\ value_string[1] = "-" THEN 0 - number ELSE number

\* ParseIntegerString(value_string, default_value)
ParseIntegerString(value_string, default_value) ==
    LET is_integer == /\ value_string # <<>>
                      /\ \A n \in 1..Len(value_string) :
                             isdigit(value_string[n]) \/ value_string[n] \in {"-", "+"}
    IN IF is_integer THEN atoi(value_string) ELSE default_value

\* gfxrecon::util::ParseUintString(value_string, default_value)
ParseUintString(value_string, default_value) ==
    IF value_string # <<>> /\ \A n \in 1..Len(value_string) : isdigit(value_string[n])
    THEN stoi(value_string)
    ELSE default_value

ParseCompressionTypeString(value_string, default_value) ==
    IF value_string = "none" THEN "kNone"
    ELSE IF value_string = "lz4" THEN "kLz4"
    ELSE IF value_string = "zlib" THEN "kZlib"
    ELSE IF value_string = "zstd" THEN "kZstd"
    ELSE default_value

ParseMemoryTrackingModeString(value_string, default_value) ==
    IF value_string = "page_guard" THEN "kPageGuard"
    ELSE IF value_string = "assisted" THEN "kAssisted"
    ELSE IF value_string = "unassisted" THEN "kUnassisted"
    ELSE default_value

\* ParseLogLevelString(value_string, default_value), with the names
\* util::Log::StringToSeverity knows
ParseLogLevelString(value_string, default_value) ==
    IF value_string \in {"debug", "info", "warning", "error", "fatal"}
    THEN value_string
    ELSE default_value

\* ParseTrimKeyString(value_string): the key without its whitespace
ParseTrimKeyString(value_string) == RemoveWhitespace(value_string)

ParseTrimKeyFramesString(value_string) ==
    IF (\A n \in 1..Len(value_string) : isdigit(value_string[n])) /\ stoi(value_string) > 0
    THEN stoi(value_string)
    ELSE 0

\* The settings ProcessLogOptions reads with ParseBoolString, and their keys.
LogBoolOptions ==
    [use_indent |-> "kOptionKeyLogAllowIndents",
     break_on_error |-> "kOptionKeyLogBreakOnError",
     output_detailed_log_info |-> "kOptionKeyLogDetailed",
     create_new |-> "kOptionKeyLogFileCreateNew",
     flush_after_write |-> "kOptionKeyLogFileFlushAfterWrite",
     leave_file_open |-> "kOptionKeyLogFileKeepOpen",
     output_errors_to_stderr |-> "kOptionKeyLogErrorsToStderr",
     write_to_console |-> "kOptionKeyLogOutputToConsole",
     output_to_os_debug_string |-> "kOptionKeyLogOutputToOsDebugString"]

\* ProcessLogOptions(options, settings): the log settings it stores.
ProcessLogOptions(options, settings) ==
    LET log == settings.log_settings_
    IN [field \in DOMAIN log |->
           IF field \in DOMAIN LogBoolOptions
           THEN ParseBoolString(FindOption(options, LogBoolOptions[field], ""), log[field])
           ELSE IF field = "file_name"
           THEN FindOption(options, "kOptionKeyLogFile", log.file_name)
           ELSE ParseLogLevelString(FindOption(options, "kOptionKeyLogLevel", ""), log.min_severity)]

\* The trace settings ProcessOptions reads with ParseBoolString and the
\* setting's own value as the default, and their keys.
TraceBoolOptions ==
    [time_stamp_file |-> "kOptionKeyCaptureFileUseTimestamp",
     force_flush |-> "kOptionKeyCaptureFileForceFlush",
     page_guard_copy_on_map |-> "kOptionKeyPageGuardCopyOnMap",
     page_guard_separate_read |-> "kOptionKeyPageGuardSeparateRead",
     page_guard_persistent_memory |-> "kOptionKeyPageGuardPersistentMemory",
     page_guard_align_buffer_sizes |-> "kOptionKeyPageGuardAlignBufferSizes",
     page_guard_track_ahb_memory |-> "kOptionKeyPageGuardTrackAhbMemory",
     page_guard_external_memory |-> "kOptionKeyPageGuardExternalMemory",
     page_guard_unblock_sigsegv |-> "kOptionKeyPageGuardUnblockSigSegV",
     page_guard_signal_handler_watcher |-> "kOptionKeyPageGuardSignalHandlerWatcher",
     debug_layer |-> "kDebugLayer",
     debug_device_lost |-> "kDebugDeviceLost",
     disable_dxr |-> "kOptionDisableDxr",
     force_command_serialization |-> "kOptionForceCommandSerialization"]

\* The keys of the other trace settings.
TraceOptions ==
    [compression_type |-> "kOptionKeyCaptureCompressionType",
     capture_file |-> "kOptionKeyCaptureFile",
     memory_tracking_mode |-> "kOptionKeyMemoryTrackingMode",
     trim_ranges |-> "kOptionKeyCaptureFrames",
     trim_key |-> "kOptionKeyCaptureTrigger",
     trim_key_frames |-> "kOptionKeyCaptureTriggerFrames",
     page_guard_signal_handler_watcher_max_restores |-> "kOptionKeyPageGuardSignalHandlerWatcherMaxRestores",
     screenshot_dir |-> "kOptionKeyScreenshotDir",
     screenshot_ranges |-> "kOptionKeyScreenshotFrames",
     accel_struct_padding |-> "kOptionAccelStructPadding",
     iunknown_wrapping |-> "kOptionKeyCaptureIUnknownWrapping"]

\* The keys FindOption is called with.
OptionKeys ==
    {TraceBoolOptions[f] : f \in DOMAIN TraceBoolOptions}
        \cup {TraceOptions[f] : f \in DOMAIN TraceOptions}
        \cup {LogBoolOptions[f] : f \in DOMAIN LogBoolOptions}
        \cup {"kOptionKeyLogFile", "kOptionKeyLogLevel"}

\* ProcessOptions(options, settings): the settings it stores and the options
\* FindOption leaves in the map. iunknown_wrapping is read after disable_dxr
\* was stored, with disable_dxr as its default.
ProcessOptions(options, settings) ==
    LET trace == settings.trace_settings_
        trim_ranges == ParseTrimRangeString(FindOption(options, "kOptionKeyCaptureFrames", <<>>),
                                            trace.trim_ranges)
        trim_key_option == FindOption(options, "kOptionKeyCaptureTrigger", <<>>)
        trim_key_frames_option == FindOption(options, "kOptionKeyCaptureTriggerFrames", <<>>)
        disable_dxr == ParseBoolString(FindOption(options, "kOptionDisableDxr", ""), trace.disable_dxr)
        trace_settings ==
            [field \in DOMAIN trace |->
                IF field \in DOMAIN TraceBoolOptions
                THEN ParseBoolString(FindOption(options, TraceBoolOptions[field], ""), trace[field])
                ELSE IF field = "compression_type"
                THEN ParseCompressionTypeString(FindOption(options, "kOptionKeyCaptureCompressionType", ""),
                                                kDefaultCompressionType)
                ELSE IF field = "capture_file"
                THEN FindOption(options, "kOptionKeyCaptureFile", trace.capture_file)
                ELSE IF field = "memory_tracking_mode"
                THEN ParseMemoryTrackingModeString(FindOption(options, "kOptionKeyMemoryTrackingMode", ""),
                                                   trace.memory_tracking_mode)
                ELSE IF field = "trim_ranges" THEN trim_ranges
                ELSE IF field = "trim_key"
                THEN IF trim_key_option # <<>> /\ trim_ranges = <<>>
                     THEN ParseTrimKeyString(trim_key_option)
                     ELSE trace.trim_key
                ELSE IF field = "trim_key_frames"
                THEN IF trim_key_option # <<>> /\ trim_ranges = <<>> /\ trim_key_frames_option # <<>>
                     THEN ParseTrimKeyFramesString(trim_key_frames_option)
                     ELSE trace.trim_key_frames
                ELSE IF field = "page_guard_signal_handler_watcher_max_restores"
                THEN ParseIntegerString(
                         FindOption(options, "kOptionKeyPageGuardSignalHandlerWatcherMaxRestores", <<>>),
                         trace.page_guard_signal_handler_watcher_max_restores)
                ELSE IF field = "screenshot_dir"
                THEN FindOption(options, "kOptionKeyScreenshotDir", trace.screenshot_dir)
                ELSE IF field = "screenshot_ranges"
                THEN ParseFramesList(FindOption(options, "kOptionKeyScreenshotFrames", ""),
                                     trace.screenshot_ranges)
                ELSE IF field = "accel_struct_padding"
                THEN ParseUintString(FindOption(options, "kOptionAccelStructPadding", <<>>),
                                     trace.accel_struct_padding)
                ELSE ParseBoolString(FindOption(options, "kOptionKeyCaptureIUnknownWrapping", ""),
                                     disable_dxr)]
    IN [options |-> MapErase(options, OptionKeys),
        settings |-> [trace_settings_ |-> trace_settings,
                      log_settings_ |-> ProcessLogOptions(options, settings)]]

\* CaptureSettings(trace_settings): the trace settings are the ones passed in
\* and the log settings are value-initialised.
CaptureSettings(trace_settings) ==
    [trace_settings_ |-> trace_settings,
     log_settings_ |-> [field \in DOMAIN LogBoolOptions \cup {"file_name", "min_severity"} |->
                           IF field = "file_name" THEN ""
                           ELSE IF field = "min_severity" THEN "debug"
                           ELSE FALSE]]

\* Trace settings with no trim range, no trigger and every switch off.
NoTraceSettings ==
    [field \in DOMAIN TraceBoolOptions \cup DOMAIN TraceOptions |->
        IF field \in DOMAIN TraceBoolOptions \cup {"iunknown_wrapping"} THEN FALSE
        ELSE IF field = "compression_type" THEN kDefaultCompressionType
        ELSE IF field = "memory_tracking_mode" THEN "kPageGuard"
        ELSE IF field \in {"capture_file", "screenshot_dir"} THEN ""
        ELSE IF field \in {"trim_key_frames", "accel_struct_padding",
                           "page_guard_signal_handler_watcher_max_restores"} THEN 0
        ELSE <<>>]

\* The capture layer before LoadSettings: no option is loaded.
CaptureInit ==
    /\ option_map = <<>>
    /\ capture_settings = CaptureSettings(NoTraceSettings)

\* -------------------------------------------------- the replay host
\* No WaitForSingleObject is in progress.
NoWait == [event |-> NULL]

\* The host side after construction: no fatal error handler is set, no event
\* and no window exists, and the replay thread is not waiting.
ReplayHostInit ==
    /\ fatal_error_handler_ = NULL
    /\ fatal_errors = <<>>
    /\ host_events = [created |-> 0, handle |-> <<>>, signaled |-> {}, closed |-> <<>>]
    /\ wait = NoWait
    /\ active_windows_ = {}
    /\ window_handles_ = <<>>

HostInit == ReplayHostInit /\ CaptureInit

ReplayObjectsInit ==
    /\ object_info_table_ = [id \in ObjectIds |-> NoObject]
    /\ mapped_memory_ = <<>>
    /\ gpu_va_map_ = {}
    /\ heap_allocations_ = <<>>
    /\ virtual_memory = [p \in Pointers |-> "unused"]
    /\ host_memory = [p \in HostPointers |-> [n \in 1..MaxFill |-> 0]]
    /\ consumer = "replaying"
    /\ ReplayHostInit

ObjectsInit == ReplayObjectsInit /\ CaptureInit

\* VirtualFree(pointer, 0, MEM_RELEASE): a second release of the same pages is
\* recorded as such.
VirtualFree(w, pointer) ==
    LET u == Logged(w, ObjectLog("VirtualFree", pointer, 0, 0))
    IN [u EXCEPT !.virtual_memory[pointer] =
            IF @ = "allocated" THEN "released" ELSE "released twice"]

\* CloseHandle(handle) on an event.
CloseHandle(w, handle) ==
    Logged([w EXCEPT !.host_events.closed = Append(@, handle)], ObjectLog("CloseHandle", handle, 0, 0))

\* window_factory_->Destroy(window)
DestroyWindow(w, window) == Logged(w, ObjectLog("window_factory_->Destroy", window, 0, 0))

RECURSIVE RemoveObject(_, _)
RECURSIVE DestroyObjectExtraInfo(_, _, _)
RECURSIVE ReleaseSwapchainImages(_, _, _)

\* mapped_memory_.erase(memory_id) for every entry of mapped_memory_info.
EraseMappedMemory(mapped, mapped_memory_info) ==
    MapErase(mapped, {mapped_memory_info[sub].memory_id : sub \in DOMAIN mapped_memory_info})

\* The loop of ReleaseSwapchainImages over the slots of swapchain record id,
\* from slot i on; `images.reset()` is done by the caller.
ReleaseSwapchainImages(w, id, i) ==
    LET info == w.object_info_table_[id].extra_info
    IN IF i > info.image_count THEN w
       ELSE LET image_info == info.images[i]
            IN IF image_info # NULL /\ w.object_info_table_[image_info].extra_ref > 0
               THEN LET w1 == [w EXCEPT !.object_info_table_[image_info].extra_ref = @ - 1]
                        image == w1.object_info_table_[image_info]
                    IN IF image.ref_count = 0 /\ image.extra_ref = 0
                       THEN ReleaseSwapchainImages(RemoveObject(w1, image_info), id, i + 1)
                       ELSE ReleaseSwapchainImages(w1, id, i + 1)
               ELSE ReleaseSwapchainImages(w, id, i + 1)

\* DestroyObjectExtraInfo(info, release_extra_refs)
DestroyObjectExtraInfo(w, id, release_extra_refs) ==
    LET info == w.object_info_table_[id].extra_info
        type == info.extra_info_type
        w1 == IF type = "kID3D12ResourceInfo"
              THEN [w EXCEPT !.gpu_va_map_ =
                                 IF info.capture_address_ # 0
                                 THEN {e \in @ : e.resource # id}
                                 ELSE @,
                             !.mapped_memory_ = EraseMappedMemory(@, info.mapped_memory_info)]
              ELSE IF type = "kID3D12HeapInfo"
              THEN IF info.external_allocation # NULL
                   THEN VirtualFree(w, info.external_allocation)
                   ELSE w
              ELSE IF type = "kID3D12CommandQueueInfo"
              THEN LET command_queue_info == w.queues[info.queue]
                       closed == IF command_queue_info.sync_event # NULL
                                 THEN CloseHandle(w, command_queue_info.sync_event)
                                 ELSE w
                   IN [closed EXCEPT !.queues[info.queue] = NoQueueInfo,
                                     !.fences[SyncFence(info.queue)] = NoFenceInfo]
              ELSE IF type = "kID3D12FenceInfo"
              THEN [w EXCEPT !.fences[info.fence] = NoFenceInfo]
              ELSE IF type = "kIDxgiSwapchainInfo"
              THEN LET released == IF release_extra_refs THEN ReleaseSwapchainImages(w, id, 1) ELSE w
                       destroyed == DestroyWindow(released, info.window)
                   IN [destroyed EXCEPT !.active_windows_ = @ \ {info.window},
                                        !.window_handles_ =
                                            IF info.hwnd_id # 0 THEN MapErase(@, {info.hwnd_id}) ELSE @]
              ELSE w
    IN [w1 EXCEPT !.object_info_table_[id].extra_info = NoExtraInfo]

\* RemoveObject(info): tear the extra_info down and erase the record.
RemoveObject(w, id) ==
    IF id = NULL THEN w
    ELSE LET rec == w.object_info_table_[id]
             u == Logged(w, ObjectLog(IF rec.live THEN "RemoveObject" ELSE "RemoveObject of a removed record",
                                      id, rec.ref_count, rec.extra_ref))
         IN [DestroyObjectExtraInfo(u, id, TRUE) EXCEPT !.object_info_table_[id] = NoObject]

\* ULONG OverrideAddRef(replay_object_info, original_result)
AddRefResult(w, id) ==
    {[w EXCEPT !.object_info_table_[id].ref_count = @ + 1]}

\* Mutant: the record is removed as soon as ref_count is 0.
ReleaseResult_IgnoresExtraRef(w, id) ==
    LET w1 == [w EXCEPT !.object_info_table_[id].ref_count = @ - 1]
    IN IF w1.object_info_table_[id].ref_count = 0
       THEN {RemoveObject(w1, id)}
       ELSE {w1}

\* The driver call object->Release() on the object of record id.
DriverRelease(w, id) == Logged(w, ObjectLog("object->Release", id, 0, 0))

\* Mutant: the driver's Release is called before the record is destroyed.
ReleaseResult_ReleaseFirst(w, id) ==
    LET w1 == DriverRelease([w EXCEPT !.object_info_table_[id].ref_count = @ - 1], id)
        rec == w1.object_info_table_[id]
    IN IF rec.ref_count = 0 /\ rec.extra_ref = 0
       THEN {RemoveObject(w1, id)}
       ELSE {w1}

\* ULONG OverrideRelease(replay_object_info, original_result): the object
\* pointer is read before the record can be destroyed and released last.
ReleaseResult(w, id) ==
    LET w1 == [w EXCEPT !.object_info_table_[id].ref_count = @ - 1]
        rec == w1.object_info_table_[id]
    IN IF rec.ref_count = 0 /\ rec.extra_ref = 0
       THEN {DriverRelease(RemoveObject(w1, id), id)}
       ELSE {DriverRelease(w1, id)}

\* A creating call that succeeded: the record of the new object is inserted.
InsertObject(w, id, object) ==
    [w EXCEPT !.object_info_table_[id] = NewObject(object)]

\* SetSwapchainInfo(info, window, hwnd_id, hwnd, image_count)
SetSwapchainInfo(w, id, window, hwnd_id, hwnd, image_count) ==
    IF window = NULL THEN w
    ELSE LET w1 == IF id # NULL
                   THEN [w EXCEPT !.object_info_table_[id].extra_info =
                                      [NewSwapchainInfo(image_count)
                                          EXCEPT !.window = window, !.hwnd_id = hwnd_id],
                                  !.window_handles_ =
                                      IF hwnd_id # 0 THEN MapPut(@, hwnd_id, hwnd) ELSE @]
                   ELSE w
         IN [w1 EXCEPT !.active_windows_ = @ \cup {window}]

\* Mutant: the driver-failure branch returns without Destroy(window).
CreateSwapChainResult_LeaksWindow(w, id, hwnd_id, buffer_count, window, hwnd, replay_ok) ==
    IF window = NULL THEN {Logged(w, ObjectLog("GFXRECON_LOG_FATAL", id, 0, 0))}
    ELSE IF hwnd = NULL
    THEN {DestroyWindow(Logged(w, ObjectLog("GFXRECON_LOG_FATAL", id, 0, 0)), window)}
    ELSE IF replay_ok
    THEN {SetSwapchainInfo(InsertObject(w, id, [interface |-> "IDXGISwapChain",
                                                BufferCount |-> buffer_count]),
                           id, window, hwnd_id, hwnd, buffer_count)}
    ELSE {w}

\* CreateSwapChainForHwnd: on success SetSwapchainInfo gives the new record a
\* DxgiSwapchainInfo with desc->BufferCount slots.
\* `window` is what window_factory_->Create returned and `hwnd` the native
\* handle GetNativeHandle gave for it, NULL when either failed.
CreateSwapChainResult(w, id, hwnd_id, buffer_count, window, hwnd, replay_ok) ==
    IF window = NULL THEN {Logged(w, ObjectLog("GFXRECON_LOG_FATAL", id, 0, 0))}
    ELSE IF hwnd = NULL
    THEN {DestroyWindow(Logged(w, ObjectLog("GFXRECON_LOG_FATAL", id, 0, 0)), window)}
    ELSE IF replay_ok
    THEN {SetSwapchainInfo(InsertObject(w, id, [interface |-> "IDXGISwapChain",
                                                BufferCount |-> buffer_count]),
                           id, window, hwnd_id, hwnd, buffer_count)}
    ELSE {DestroyWindow(w, window)}

\* Mutant: the slot is overwritten and the reference taken on every call.
GetBufferResult_Always(w, id, buffer, surface, fresh, replay_ok) ==
    IF ~replay_ok THEN {w}
    ELSE LET w1 == IF fresh THEN InsertObject(w, surface, [interface |-> "ID3D12Resource"]) ELSE w
         IN {[w1 EXCEPT !.object_info_table_[surface].extra_ref = @ + 1,
                        !.object_info_table_[id].extra_info.images[buffer + 1] = surface]}

\* HRESULT OverrideGetBuffer(swapchain, buffer, surface).  `surface` is the
\* record of the returned buffer, inserted by the call when `fresh`.  A buffer
\* index that is not a slot of `images` is read outside the array: the read
\* yields nullptr or something else, and the store after it does not reach a
\* slot.
GetBufferResult(w, id, buffer, surface, fresh, replay_ok) ==
    IF ~replay_ok THEN {w}
    ELSE LET w1 == IF fresh THEN InsertObject(w, surface, [interface |-> "ID3D12Resource"]) ELSE w
             info == w1.object_info_table_[id].extra_info
             taken == [w1 EXCEPT !.object_info_table_[surface].extra_ref = @ + 1]
         IN IF info.extra_info_type = "none"
            THEN {Logged(w1, ObjectLog("GFXRECON_LOG_FATAL", id, 0, 0))}
            ELSE IF buffer + 1 \in 1..info.image_count
            THEN IF info.images[buffer + 1] = NULL
                 THEN {[taken EXCEPT !.object_info_table_[id].extra_info.images[buffer + 1] = surface]}
                 ELSE {w1}
            ELSE {Logged(taken, ObjectLog("images[buffer] out of bounds", id, buffer, info.image_count)),
                  Logged(w1, ObjectLog("images[buffer] out of bounds", id, buffer, info.image_count))}

\* Mutant: the slots are reset without releasing the records they hold.
ResetSwapchainImages_NoRelease(w, id, buffer_count) ==
    IF id = NULL \/ w.object_info_table_[id].extra_info.extra_info_type = "none"
    THEN Logged(w, ObjectLog("GFXRECON_LOG_FATAL", id, 0, 0))
    ELSE [w EXCEPT !.object_info_table_[id].extra_info =
                       [@ EXCEPT !.image_count = buffer_count,
                                 !.images = [i \in 1..buffer_count |-> NULL]]]

\* ResetSwapchainImages(info, buffer_count, width, height)
ResetSwapchainImages(w, id, buffer_count) ==
    IF id = NULL \/ w.object_info_table_[id].extra_info.extra_info_type = "none"
    THEN Logged(w, ObjectLog("GFXRECON_LOG_FATAL", id, 0, 0))
    ELSE [ReleaseSwapchainImages(w, id, 1)
              EXCEPT !.object_info_table_[id].extra_info =
                         [@ EXCEPT !.image_count = buffer_count,
                                   !.images = [i \in 1..buffer_count |-> NULL]]]

\* OverrideResizeBuffers and OverrideResizeBuffers1: a buffer count of 0 asks
\* the driver to keep the number of buffers it has.
ResizeBuffersResult(w, id, buffer_count, replay_ok) ==
    IF replay_ok
    THEN {ResetSwapchainImages(
              [w EXCEPT !.object_info_table_[id].object.BufferCount =
                            IF buffer_count = 0 THEN @ ELSE buffer_count],
              id, buffer_count)}
    ELSE {w}

\* A resource created by the device: the record the creating call inserts.
CreateResourceResult(w, id, replay_ok) ==
    IF replay_ok THEN {InsertObject(w, id, [interface |-> "ID3D12Resource"])} ELSE {w}

\* The D3D12ResourceInfo of record id, created on first use.
ResourceInfoOf(w, id) ==
    IF w.object_info_table_[id].extra_info.extra_info_type = "none"
    THEN NewResourceInfo
    ELSE w.object_info_table_[id].extra_info

\* Value-initialised element that mapped_memory_info[subresource] inserts.
NoMappedMemoryInfo == [memory_id |-> 0, count |-> 0]

\* HRESULT OverrideResourceMap(resource, original_result, subresource, read_range,
\* data).  `memory_id` is *id_pointer (NULL: no id pointer) and `data` is the
\* pointer the driver returned in *data_pointer.
ResourceMapResult(w, id, subresource, memory_id, data, replay_ok) ==
    IF replay_ok /\ memory_id # NULL /\ data # NULL
    THEN LET resource_info == ResourceInfoOf(w, id)
             infos == resource_info.mapped_memory_info
             memory_info == IF subresource \in DOMAIN infos THEN infos[subresource]
                            ELSE NoMappedMemoryInfo
         IN {[w EXCEPT !.object_info_table_[id].extra_info =
                           [resource_info EXCEPT !.mapped_memory_info =
                                MapPut(infos, subresource,
                                       [memory_id |-> memory_id, count |-> memory_info.count + 1])],
                       !.mapped_memory_ = MapPut(@, memory_id, data)]}
    ELSE {w}

\* Mutant: every Unmap erases the index entry of the subresource's memory id.
ResourceUnmapResult_EraseAlways(w, id, subresource) ==
    LET extra_info == w.object_info_table_[id].extra_info
    IN IF extra_info.extra_info_type = "none" THEN {w}
       ELSE IF subresource \notin DOMAIN extra_info.mapped_memory_info THEN {w}
       ELSE LET memory_info == extra_info.mapped_memory_info[subresource]
            IN IF memory_info.count - 1 = 0
               THEN {[w EXCEPT !.mapped_memory_ = MapErase(@, {memory_info.memory_id}),
                               !.object_info_table_[id].extra_info.mapped_memory_info =
                                   MapErase(@, {subresource})]}
               ELSE {[w EXCEPT !.mapped_memory_ = MapErase(@, {memory_info.memory_id}),
                               !.object_info_table_[id].extra_info.mapped_memory_info[subresource].count =
                                   @ - 1]}

\* void OverrideResourceUnmap(resource, subresource, written_range)
ResourceUnmapResult(w, id, subresource) ==
    LET extra_info == w.object_info_table_[id].extra_info
    IN IF extra_info.extra_info_type = "none" THEN {w}
       ELSE IF subresource \notin DOMAIN extra_info.mapped_memory_info THEN {w}
       ELSE LET memory_info == extra_info.mapped_memory_info[subresource]
            IN IF memory_info.count - 1 = 0
               THEN {[w EXCEPT !.mapped_memory_ = MapErase(@, {memory_info.memory_id}),
                               !.object_info_table_[id].extra_info.mapped_memory_info =
                                   MapErase(@, {subresource})]}
               ELSE {[w EXCEPT !.object_info_table_[id].extra_info.mapped_memory_info[subresource].count =
                                   @ - 1]}

\* Mutant: the bytes are copied to the mapped pointer itself.
FillMemoryResult_NoOffset(w, memory_id, offset, size, data) ==
    IF memory_id \in DOMAIN w.mapped_memory_
    THEN {[w EXCEPT !.host_memory[w.mapped_memory_[memory_id]] =
                        [n \in 1..MaxFill |-> IF n <= size THEN data[n] ELSE @[n]]]}
    ELSE {Logged(w, ObjectLog("GFXRECON_LOG_WARNING", memory_id, 0, 0))}

\* void ProcessFillMemoryCommand(memory_id, offset, size, data): MemoryCopy of
\* `size` bytes to the mapped pointer plus offset.  Byte n of the region behind
\* a pointer is host_memory[pointer][n], counted from 1.
FillMemoryResult(w, memory_id, offset, size, data) ==
    IF memory_id \in DOMAIN w.mapped_memory_
    THEN {[w EXCEPT !.host_memory[w.mapped_memory_[memory_id]] =
                        [n \in 1..MaxFill |-> IF offset < n /\ n <= offset + size
                                              THEN data[n - offset]
                                              ELSE @[n]]]}
    ELSE {Logged(w, ObjectLog("GFXRECON_LOG_WARNING", memory_id, 0, 0))}

\* An entry of gpu_va_map_ as gpu_va_map_.Add records it.
GpuVaEntry(resource, capture_address, replay_address) ==
    [resource |-> resource, capture |-> capture_address, replay |-> replay_address]

\* Mutant: every call with two non-zero addresses records the pair it sees.
GetGpuVirtualAddressResult_Overwrite(w, id, original_result, replay_result) ==
    IF original_result # 0 /\ replay_result # 0
    THEN {[w EXCEPT !.object_info_table_[id].extra_info =
                        [ResourceInfoOf(w, id) EXCEPT !.capture_address_ = original_result,
                                                      !.replay_address_ = replay_result],
                    !.gpu_va_map_ = @ \cup {GpuVaEntry(id, original_result, replay_result)}]}
    ELSE {w}

\* D3D12_GPU_VIRTUAL_ADDRESS OverrideGetGpuVirtualAddress(resource, original_result);
\* `replay_result` is what the driver returned for the replayed resource.
GetGpuVirtualAddressResult(w, id, original_result, replay_result) ==
    IF original_result # 0 /\ replay_result # 0
    THEN LET resource_info == ResourceInfoOf(w, id)
         IN IF resource_info.capture_address_ = 0
            THEN {[w EXCEPT !.object_info_table_[id].extra_info =
                                [resource_info EXCEPT !.capture_address_ = original_result,
                                                      !.replay_address_ = replay_result],
                            !.gpu_va_map_ = @ \cup {GpuVaEntry(id, original_result, replay_result)}]}
            ELSE {[w EXCEPT !.object_info_table_[id].extra_info = resource_info]}
    ELSE {w}

\* E_FAIL, the result OverrideOpenExistingHeapFromAddress starts from.
E_FAIL == -1

\* What a call returned.
ReturnLog(result) == [call |-> "return", result |-> result]

\* void ProcessCreateHeapAllocationCommand(allocation_id, allocation_size).
\* `heap_allocation` is what VirtualAlloc returned.  For an id that is already
\* in the pool the assert stops a build with assertions, and a build without
\* them overwrites the entry.
CreateHeapAllocationResult(w, allocation_id, heap_allocation) ==
    IF heap_allocation # NULL
    THEN LET w1 == [w EXCEPT !.virtual_memory[heap_allocation] = "allocated"]
             stored == [w1 EXCEPT !.heap_allocations_ = MapPut(@, allocation_id, heap_allocation)]
         IN IF allocation_id \in DOMAIN w.heap_allocations_
            THEN {stored, Logged(w1, ObjectLog("assert", allocation_id, 0, 0))}
            ELSE {stored}
    ELSE {Logged(w, ObjectLog("GFXRECON_LOG_FATAL", allocation_id, 0, 0))}

\* Mutant: the pool entry is kept when the driver call fails.
OpenExistingHeapFromAddressResult_KeepsEntry(w, allocation_id, heap, replay_result) ==
    IF allocation_id \in DOMAIN w.heap_allocations_
    THEN LET entry == w.heap_allocations_[allocation_id]
             called == Logged(w, ObjectLog("ID3D12Device3::OpenExistingHeapFromAddress", entry, 0, 0))
         IN IF replay_result >= 0
            THEN {Logged([InsertObject(called, heap, [interface |-> "ID3D12Heap"])
                             EXCEPT !.object_info_table_[heap].extra_info = NewHeapInfo(entry),
                                    !.heap_allocations_ = MapErase(@, {allocation_id})],
                         ReturnLog(replay_result))}
            ELSE {Logged(VirtualFree(called, entry), ReturnLog(replay_result))}
    ELSE {Logged(Logged(w, ObjectLog("GFXRECON_LOG_FATAL", allocation_id, 0, 0)), ReturnLog(E_FAIL))}

\* HRESULT OverrideOpenExistingHeapFromAddress(device, original_result,
\* allocation_id, riid, heap).  `replay_result` is what the driver returns when
\* it is called and `heap` the record of the heap it creates.
OpenExistingHeapFromAddressResult(w, allocation_id, heap, replay_result) ==
    IF allocation_id \in DOMAIN w.heap_allocations_
    THEN LET entry == w.heap_allocations_[allocation_id]
             called == Logged(w, ObjectLog("ID3D12Device3::OpenExistingHeapFromAddress", entry, 0, 0))
             opened == IF replay_result >= 0
                       THEN [InsertObject(called, heap, [interface |-> "ID3D12Heap"])
                                EXCEPT !.object_info_table_[heap].extra_info = NewHeapInfo(entry)]
                       ELSE VirtualFree(called, entry)
         IN {Logged([opened EXCEPT !.heap_allocations_ = MapErase(@, {allocation_id})],
                    ReturnLog(replay_result))}
    ELSE {Logged(Logged(w, ObjectLog("GFXRECON_LOG_FATAL", allocation_id, 0, 0)), ReturnLog(E_FAIL))}

\* ------------------------------------------------------------ host events
\* INFINITE of the Windows wait functions, the DWORD 0xFFFFFFFF, written as the
\* 32-bit value -1; and the timeout of the waits that synchronize fences.
INFINITE == -1
kDefaultWaitTimeout == INFINITE

\* The longest time the model measures a wait for.
MaxElapsed == 2

\* kInternalEventId, the all-ones id: above every event id of the capture.
kInternalEventId == NumEvents + 1
EventIds == Events \cup {kInternalEventId}

\* The handles CreateEventA has returned.
Handles(events) == 1..events.created

\* What GetEventObject returns with: the handle, the host events, and what it logged.
GotEvent(event, events, lg) == [event |-> event, host_events |-> events, log |-> lg]

\* Mutant: a cached event is reset whatever the flag says.
GetEventObjectHandle_AlwaysReset(events, event_id, reset, create_ok) ==
    IF event_id \in DOMAIN events.handle
    THEN LET event_object == events.handle[event_id]
         IN GotEvent(event_object, [events EXCEPT !.signaled = @ \ {event_object}], <<>>)
    ELSE IF create_ok
    THEN LET event_object == events.created + 1
         IN GotEvent(event_object,
                     [events EXCEPT !.created = event_object,
                                    !.handle = MapPut(@, event_id, event_object)],
                     <<>>)
    ELSE GotEvent(NULL, events, <<"GFXRECON_LOG_FATAL">>)

\* HANDLE GetEventObject(event_id, reset), on the host events: the cached
\* handle, reset when asked, or a handle that CreateEventA(nullptr, TRUE, FALSE,
\* nullptr) returns (create_ok) and that is then cached.
GetEventObjectHandle(events, event_id, reset, create_ok) ==
    IF event_id \in DOMAIN events.handle
    THEN LET event_object == events.handle[event_id]
         IN GotEvent(event_object,
                     IF reset THEN [events EXCEPT !.signaled = @ \ {event_object}] ELSE events,
                     <<>>)
    ELSE IF create_ok
    THEN LET event_object == events.created + 1
         IN GotEvent(event_object,
                     [events EXCEPT !.created = event_object,
                                    !.handle = MapPut(@, event_id, event_object)],
                     <<>>)
    ELSE GotEvent(NULL, events, <<"GFXRECON_LOG_FATAL">>)

\* ------------------------------------------- queue and fence records
\* A log entry of a call made on behalf of a queue record.
QueueLog(call, id, value, event) == [call |-> call, id |-> id, value |-> value, event |-> event]

\* HRESULT OverrideCreateCommandQueue(device, original_result, desc, riid,
\* command_queue), with the record `id` of the new queue and its
\* D3D12CommandQueueInfo queues[q].  fence_ok and event_ok: CreateFence and
\* CreateEventA succeed when the --sync option makes the call reach them.
CreateCommandQueueRecord(w, id, q, sync_queue_submissions, replay_ok, fence_ok, event_ok) ==
    IF ~replay_ok THEN {w}
    ELSE LET inserted == [InsertObject(w, id, [interface |-> "ID3D12CommandQueue"])
                             EXCEPT !.object_info_table_[id].extra_info = CommandQueueInfoOf(q),
                                    !.queues[q] = [NoQueueInfo EXCEPT !.created = TRUE]]
         IN IF ~sync_queue_submissions THEN {inserted}
            ELSE IF ~fence_ok THEN {Logged(inserted, QueueLog("GFXRECON_LOG_ERROR", id, 0, NULL))}
            ELSE {[inserted EXCEPT !.queues[q].sync_fence = SyncFence(q),
                                   !.queues[q].sync_event =
                                       IF event_ok THEN inserted.host_events.created + 1 ELSE NULL,
                                   !.fences[SyncFence(q)] = NewFenceInfo(0),
                                   !.host_events.created = IF event_ok THEN @ + 1 ELSE @]}

\* HRESULT OverrideCreateFence(device, original_result, initial_value, flags,
\* riid, fence), with the record `id` of the new fence and its D3D12FenceInfo
\* fences[f].
CreateFenceRecord(w, id, f, initial_value, replay_ok) ==
    IF ~replay_ok THEN {w}
    ELSE {[InsertObject(w, id, [interface |-> "ID3D12Fence"])
              EXCEPT !.object_info_table_[id].extra_info = FenceInfoOf(f),
                     !.fences[f] = NewFenceInfo(initial_value)]}

\* ------------------------------------------------------------- shutdown
\* What the driver and the host do for one command queue during WaitIdle:
\* whether CreateEventA, ID3D12CommandQueue::GetDevice and
\* ID3D12Device::CreateFence succeed when they are called.
DriverOutcomes == [create_ok : BOOLEAN, device_ok : BOOLEAN, fence_ok : BOOLEAN]

\* The records of the table that hold a D3D12CommandQueueInfo.
CommandQueueRecords(w) ==
    {id \in ObjectIds : w.object_info_table_[id].extra_info.extra_info_type = "kID3D12CommandQueueInfo"}

\* queue->Signal(fence, value); fence->SetEventOnCompletion(value, sync_event);
\* WaitForSingleObject(sync_event, INFINITE)
SignalAndWait(w, id, value, sync_event) ==
    Logged(Logged(Logged(w, QueueLog("ID3D12CommandQueue::Signal", id, value, NULL)),
                  QueueLog("ID3D12Fence::SetEventOnCompletion", id, value, sync_event)),
           QueueLog("WaitForSingleObject", id, INFINITE, sync_event))

\* Mutant: the queues that have a sync fence are not waited for.
WaitIdleQueue_TemporaryFenceOnly(w, id, outcome) ==
    LET q == w.object_info_table_[id].extra_info.queue
        got == GetEventObjectHandle(w.host_events, kInternalEventId, TRUE, outcome.create_ok)
        w1 == [w EXCEPT !.host_events = got.host_events]
    IN IF got.event = NULL THEN Logged(w1, QueueLog("GFXRECON_LOG_FATAL", id, 0, NULL))
       ELSE IF w1.queues[q].sync_fence = NULL /\ outcome.device_ok /\ outcome.fence_ok
       THEN SignalAndWait(w1, id, 1, got.event)
       ELSE w1

\* The body of the loop of WaitIdle for command queue record id.
WaitIdleQueue(w, id, outcome) ==
    LET q == w.object_info_table_[id].extra_info.queue
        got == GetEventObjectHandle(w.host_events, kInternalEventId, TRUE, outcome.create_ok)
        w1 == [w EXCEPT !.host_events = got.host_events]
    IN IF got.event = NULL THEN Logged(w1, QueueLog("GFXRECON_LOG_FATAL", id, 0, NULL))
       ELSE IF w1.queues[q].sync_fence = NULL
       THEN IF outcome.device_ok /\ outcome.fence_ok
            THEN SignalAndWait(w1, id, 1, got.event)
            ELSE w1
       ELSE LET w2 == [w1 EXCEPT !.queues[q].sync_value = @ + 1]
            IN SignalAndWait(w2, id, w2.queues[q].sync_value, got.event)

RECURSIVE WaitIdle(_, _, _)
\* WaitIdle over the command queue records `ids`; outcomes[id] is what the
\* driver and the host do for record id.
WaitIdle(w, ids, outcomes) ==
    IF ids = {} THEN w
    ELSE WaitIdle(WaitIdleQueue(w, SetMin(ids), outcomes[SetMin(ids)]), ids \ {SetMin(ids)}, outcomes)

RECURSIVE ReleaseTimes(_, _, _)
\* info.object->Release(), n times.
ReleaseTimes(w, id, n) ==
    IF n = 0 THEN w ELSE ReleaseTimes(DriverRelease(w, id), id, n - 1)

RECURSIVE DestroyActiveObjects(_, _)
\* DestroyActiveObjects over the records `ids`: the extra_info of each is torn
\* down without releasing extra references and the object is released
\* ref_count times, then the table is cleared.
DestroyActiveObjects(w, ids) ==
    IF ids = {} THEN [w EXCEPT !.object_info_table_ = [id \in ObjectIds |-> NoObject]]
    ELSE LET id == SetMin(ids)
             w1 == DestroyObjectExtraInfo(w, id, FALSE)
         IN DestroyActiveObjects(ReleaseTimes(w1, id, w1.object_info_table_[id].ref_count),
                                 ids \ {id})

RECURSIVE DestroyActiveWindows(_, _)
\* DestroyActiveWindows over the windows `windows`, then both containers are
\* cleared.
DestroyActiveWindows(w, windows) ==
    IF windows = {} THEN [w EXCEPT !.active_windows_ = {}, !.window_handles_ = <<>>]
    ELSE DestroyActiveWindows(DestroyWindow(w, SetMin(windows)), windows \ {SetMin(windows)})

RECURSIVE DestroyActiveEvents(_, _)
\* DestroyActiveEvents over the cached events `ids`, then the cache is cleared.
DestroyActiveEvents(w, ids) ==
    IF ids = {} THEN [w EXCEPT !.host_events.handle = <<>>]
    ELSE DestroyActiveEvents(CloseHandle(w, w.host_events.handle[SetMin(ids)]), ids \ {SetMin(ids)})

RECURSIVE DestroyHeapAllocations(_, _)
\* DestroyHeapAllocations over the pool entries `ids`, then the pool is cleared.
DestroyHeapAllocations(w, ids) ==
    IF ids = {} THEN [w EXCEPT !.heap_allocations_ = <<>>]
    ELSE DestroyHeapAllocations(VirtualFree(w, w.heap_allocations_[SetMin(ids)]), ids \ {SetMin(ids)})

\* ~Dx12ReplayConsumerBase(): WaitIdle, DestroyActiveObjects,
\* DestroyActiveWindows, DestroyActiveEvents, DestroyHeapAllocations.
DestructorResult(w, outcomes) ==
    LET live == {id \in ObjectIds : w.object_info_table_[id].live}
        idle == WaitIdle(w, CommandQueueRecords(w), outcomes)
        w1 == DestroyActiveObjects(idle, live)
        w2 == DestroyActiveWindows(w1, w1.active_windows_)
        w3 == DestroyActiveEvents(w2, DOMAIN w2.host_events.handle)
    IN {DestroyHeapAllocations(w3, DOMAIN w3.heap_allocations_)}

\* ------------------------------------------------------- reported errors
\* DXGI_ERROR_DEVICE_REMOVED among the HRESULT values of the model.
DXGI_ERROR_DEVICE_REMOVED == -2

\* What a call reported: the severities it logged, and the messages the fatal
\* error handler has been called with.
Reported(lg, errors) == [log |-> lg, fatal_errors |-> errors]

\* void RaiseFatalError(message)
RaiseFatalError(errors, handler, message) ==
    IF handler # NULL THEN Append(errors, message) ELSE errors

\* Mutant: every mismatch is fatal.
CheckReplayResult_AlwaysFatal(errors, handler, capture_result, replay_result) ==
    IF capture_result # replay_result
    THEN Reported(<<"GFXRECON_LOG_FATAL">>, RaiseFatalError(errors, handler, replay_result))
    ELSE Reported(<<>>, errors)

\* void CheckReplayResult(call_name, capture_result, replay_result).  The
\* message passed to the handler is the description of replay_result.
CheckReplayResult(errors, handler, capture_result, replay_result) ==
    IF capture_result # replay_result
    THEN IF replay_result = DXGI_ERROR_DEVICE_REMOVED
         THEN Reported(<<"GFXRECON_LOG_FATAL">>, RaiseFatalError(errors, handler, replay_result))
         ELSE Reported(<<"GFXRECON_LOG_WARNING">>, errors)
    ELSE Reported(<<>>, errors)

\* OverrideD3D12CreateDevice: the record of a created device gets a D3D12DeviceInfo.
CreateDeviceResult(w, id, replay_ok) ==
    IF replay_ok
    THEN {[InsertObject(w, id, [interface |-> "ID3D12Device"])
              EXCEPT !.object_info_table_[id].extra_info = [extra_info_type |-> "kID3D12DeviceInfo"]]}
    ELSE {w}

\* ------------------------------------------------------- the replayed calls
\* The state the helpers start from: the log of a replayed call starts empty.
Now == St(fences, queues, <<>>)

\* A state the model keeps: the bounds on what is outstanding.
WithinBounds(t) ==
    /\ TotalPending(t.queues) + TotalEvents(t.fences, Fences) <= MaxPending
    /\ TotalEvents(t.fences, Fences) <= MaxEvents
    /\ TotalWaitQueues(t.fences, Fences) <= MaxPending

\* The replayed call ends in one of the states of `results`.
Returns(results) ==
    \E t \in results :
        /\ WithinBounds(t)
        /\ fences' = t.fences
        /\ queues' = t.queues
        /\ UNCHANGED objectVars

CreatedFences == {f \in Fences : fences[f].created}
CreatedQueues == {q \in Queues : queues[q].created}

\* Capture ids are handed out in ascending order: the next object created gets
\* the smallest unused id (NULL when all ids of the model are in use).
NextId(unused) == IF unused = {} THEN NULL ELSE SetMin(unused)

Init ==
    /\ fences = [f \in AllFences |-> NoFenceInfo]
    /\ queues = [q \in Queues |-> NoQueueInfo]
    /\ event_objects_ = {}
    /\ ObjectsInit

\* What each override does to the synchronizer, as the set of states it can
\* return with.  original_ok: the call succeeded at capture; replay_ok: the
\* driver call succeeds on replay.
CreateCommandQueueResult(s, q, replay_ok) ==
    IF replay_ok
    THEN {[s EXCEPT !.queues[q] = [NoQueueInfo EXCEPT !.created = TRUE]]}
    ELSE {s}

CreateFenceResult(s, f, initial_value, replay_ok) ==
    IF replay_ok THEN {[s EXCEPT !.fences[f] = NewFenceInfo(initial_value)]} ELSE {s}

CommandQueueSignalResult(s, q, f, value, original_ok, replay_ok) ==
    IF ~original_ok THEN {s}
    ELSE IF replay_ok THEN ProcessQueueSignal(s, q, f, value)
    ELSE {s}

CommandQueueWaitResult(s, q, f, value, original_ok, replay_ok) ==
    IF ~original_ok THEN {s}
    ELSE IF replay_ok THEN ProcessQueueWait(s, q, f, value)
    ELSE {s}

FenceSignalResult(s, f, value, original_ok, replay_ok) ==
    IF ~original_ok THEN {s}
    ELSE IF replay_ok
    THEN ProcessFenceSignal(Logged(s, LogEntry("ProcessFenceSignal", NULL, f, value, 0)), f, value)
    ELSE {s}

EnqueueMakeResidentResult(s, f, value, replay_ok) ==
    IF replay_ok
    THEN ProcessFenceSignal(Logged(s, LogEntry("ProcessFenceSignal", NULL, f, value, 0)), f, value)
    ELSE {s}

\* Mutant: the event is registered when the value equals last_signaled_value.
SetEventOnCompletionResult_Strict(s, f, value, event_object, original_ok, replay_ok) ==
    IF ~original_ok THEN {s}
    ELSE IF replay_ok /\ event_object # NULL
    THEN IF ~s.fences[f].created
         THEN {Logged(s, LogEntry("GFXRECON_LOG_FATAL", NULL, f, value, 0))}
         ELSE IF value < s.fences[f].last_signaled_value
         THEN {Logged(s, LogEntry("WaitForSingleObject", NULL, f, event_object, 0))}
         ELSE {[s EXCEPT !.fences[f].waiting_objects =
                    MapPut(@, value, [MapAt(@, value) EXCEPT !.wait_events = Append(@, event_object)])]}
    ELSE {s}

\* event_object: what GetEventObject returned (NULL: event creation failed).
SetEventOnCompletionResult(s, f, value, event_object, original_ok, replay_ok) ==
    IF ~original_ok THEN {s}
    ELSE IF replay_ok /\ event_object # NULL
    THEN IF ~s.fences[f].created
         THEN {Logged(s, LogEntry("GFXRECON_LOG_FATAL", NULL, f, value, 0))}
         ELSE IF value <= s.fences[f].last_signaled_value
         THEN {Logged(s, LogEntry("WaitForSingleObject", NULL, f, event_object, 0))}
         ELSE {[s EXCEPT !.fences[f].waiting_objects =
                    MapPut(@, value, [MapAt(@, value) EXCEPT !.wait_events = Append(@, event_object)])]}
    ELSE {s}

\* Mutant: the sync event is waited for whatever the queue has pending.
ExecuteCommandListsResult_AlwaysWaits(s, q, sync_queue_submissions, is_null) ==
    LET called == Logged(s, LogEntry("ID3D12CommandQueue::ExecuteCommandLists", q, NULL, 0, 0))
        info == s.queues[q]
        sync_value == info.sync_value + 1
    IN IF ~(sync_queue_submissions /\ ~is_null) THEN {called}
       ELSE IF ~info.created THEN {Logged(called, LogEntry("GFXRECON_LOG_FATAL", q, NULL, 0, 0))}
       ELSE IF info.sync_event = NULL
       THEN {Logged(called, LogEntry("GFXRECON_LOG_ERROR", q, NULL, 0, 0))}
       ELSE {Logged(Logged(Logged(Logged([called EXCEPT !.queues[q].sync_value = sync_value],
                                         LogEntry("ID3D12CommandQueue::Signal", q, info.sync_fence,
                                                  sync_value, 0)),
                                  LogEntry("ResetEvent", q, NULL, 0, info.sync_event)),
                           LogEntry("ID3D12Fence::SetEventOnCompletion", q, info.sync_fence,
                                    sync_value, info.sync_event)),
                    LogEntry("WaitForSingleObject", q, NULL, INFINITE, info.sync_event))}

\* void OverrideExecuteCommandLists(queue, num_command_lists, command_lists).
\* sync_queue_submissions: the --sync option; is_null: command_lists->IsNull().
ExecuteCommandListsResult(s, q, sync_queue_submissions, is_null) ==
    LET called == Logged(s, LogEntry("ID3D12CommandQueue::ExecuteCommandLists", q, NULL, 0, 0))
        info == s.queues[q]
        sync_value == info.sync_value + 1
    IN IF ~(sync_queue_submissions /\ ~is_null) THEN {called}
       ELSE IF ~info.created THEN {Logged(called, LogEntry("GFXRECON_LOG_FATAL", q, NULL, 0, 0))}
       ELSE IF info.sync_event = NULL
       THEN {Logged(called, LogEntry("GFXRECON_LOG_ERROR", q, NULL, 0, 0))}
       ELSE LET set == Logged(Logged(Logged([called EXCEPT !.queues[q].sync_value = sync_value],
                                            LogEntry("ID3D12CommandQueue::Signal", q, info.sync_fence,
                                                     sync_value, 0)),
                                     LogEntry("ResetEvent", q, NULL, 0, info.sync_event)),
                              LogEntry("ID3D12Fence::SetEventOnCompletion", q, info.sync_fence,
                                       sync_value, info.sync_event))
            IN IF info.pending_events = <<>>
               THEN {Logged(set, LogEntry("WaitForSingleObject", q, NULL, INFINITE, info.sync_event))}
               ELSE {[set EXCEPT !.fences[SyncFence(q)].waiting_objects =
                                     MapPut(@, sync_value,
                                            [MapAt(@, sync_value)
                                                EXCEPT !.wait_events = Append(@, info.sync_event)]),
                                 !.queues[q].pending_events =
                                     Append(@, [is_wait |-> FALSE, is_signaled |-> FALSE,
                                                fence_info |-> SyncFence(q), value |-> sync_value])]}

\* HRESULT values: S_OK, and two failure codes so that the captured and the
\* replayed failure can differ.
HResults == {0, -1, -2}

FAILED(hr) == hr < 0

SUCCEEDED(hr) == hr >= 0

\* What the fence overrides (CommandQueue Signal and Wait, Fence Signal and
\* SetEventOnCompletion) return, and whether they called the driver:
\* original_result is the captured HRESULT, replay_result what the driver
\* returns when called.
FenceOpReturn(original_result, replay_result) ==
    IF FAILED(original_result)
    THEN [driver_called |-> FALSE, result |-> original_result]
    ELSE [driver_called |-> TRUE, result |-> replay_result]

\* Mutant: the event object is looked up before the captured result is tested.
SetEventOnCompletionCache_Always(cache, event_id, create_ok, original_ok) ==
    GetEventObject(cache, event_id, create_ok).cache

\* The event registry after OverrideSetEventOnCompletion: GetEventObject is
\* called only past the test of the captured result.
SetEventOnCompletionCache(cache, event_id, create_ok, original_ok) ==
    IF ~original_ok THEN cache ELSE GetEventObject(cache, event_id, create_ok).cache

\* The inputs of the replayed calls.  A call that failed at capture or fails on
\* replay does the same whatever its other arguments are, so those are drawn
\* once.
Outcomes == {<<TRUE, TRUE>>, <<TRUE, FALSE>>, <<FALSE, TRUE>>}

QueueCallInputs ==
    {<<q, f, value, TRUE, TRUE>> : q \in CreatedQueues, f \in CreatedFences \cup {NULL}, value \in Values}
        \cup {<<q, NULL, 0, o[1], o[2]>> : q \in CreatedQueues, o \in Outcomes \ {<<TRUE, TRUE>>}}

FenceCallInputs ==
    {<<f, value, TRUE, TRUE>> : f \in CreatedFences, value \in Values}
        \cup {<<f, 0, o[1], o[2]>> : f \in CreatedFences, o \in Outcomes \ {<<TRUE, TRUE>>}}

OverrideCreateCommandQueue ==
    \E q \in {NextId(Queues \ CreatedQueues)} \ {NULL}, replay_ok \in BOOLEAN :
        /\ Returns(CreateCommandQueueResult(Now, q, replay_ok))
        /\ UNCHANGED event_objects_

OverrideCreateFence ==
    \E f \in {NextId(Fences \ CreatedFences)} \ {NULL}, initial_value \in Values, replay_ok \in BOOLEAN :
        /\ Returns(CreateFenceResult(Now, f, initial_value, replay_ok))
        /\ UNCHANGED event_objects_

OverrideCommandQueueSignal ==
    \E in \in QueueCallInputs :
        /\ Returns(CommandQueueSignalResult(Now, in[1], in[2], in[3], in[4], in[5]))
        /\ UNCHANGED event_objects_

OverrideCommandQueueWait ==
    \E in \in QueueCallInputs :
        /\ Returns(CommandQueueWaitResult(Now, in[1], in[2], in[3], in[4], in[5]))
        /\ UNCHANGED event_objects_

OverrideFenceSignal ==
    \E in \in FenceCallInputs :
        /\ Returns(FenceSignalResult(Now, in[1], in[2], in[3], in[4]))
        /\ UNCHANGED event_objects_

OverrideEnqueueMakeResident ==
    \E f \in CreatedFences \cup {NULL}, value \in Values, replay_ok \in BOOLEAN :
        /\ replay_ok \/ (f = NULL /\ value = 0)
        /\ Returns(EnqueueMakeResidentResult(Now, f, value, replay_ok))
        /\ UNCHANGED event_objects_

OverrideSetEventOnCompletion ==
    \E in \in FenceCallInputs, event_id \in Events, create_ok \in BOOLEAN :
        LET got == GetEventObject(event_objects_, event_id, create_ok)
        IN IF ~in[3]
           THEN UNCHANGED vars
           ELSE /\ event_objects_' = SetEventOnCompletionCache(event_objects_, event_id, create_ok, in[3])
                /\ Returns(SetEventOnCompletionResult(Now, in[1], in[2], got.event, in[3], in[4]))

Next ==
    \/ OverrideCreateCommandQueue
    \/ OverrideCreateFence
    \/ OverrideCommandQueueSignal
    \/ OverrideCommandQueueWait
    \/ OverrideFenceSignal
    \/ OverrideEnqueueMakeResident
    \/ OverrideSetEventOnCompletion

Spec == Init /\ [][Next]_vars

\* -------------------------------------------- dependency chains of queues
\* The same overrides replayed on a capture that has already created every
\* fence (initial value 0) and every queue and that only uses the fence value
\* ChainValue, with up to ChainLen pending entries in each queue: long enough
\* for one queue's deferred signal to release another queue's wait.
ChainLen == 2
ChainValue == 1

ChainInit ==
    /\ fences = [f \in AllFences |-> IF f \in Fences THEN NewFenceInfo(0) ELSE NoFenceInfo]
    /\ queues = [q \in Queues |-> [NoQueueInfo EXCEPT !.created = TRUE]]
    /\ event_objects_ = {}
    /\ ObjectsInit

ChainReturns(results) ==
    \E t \in results :
        /\ \A q \in Queues : Len(t.queues[q].pending_events) <= ChainLen
        /\ TotalWaitQueues(t.fences, Fences) <= NumQueues * ChainLen
        /\ fences' = t.fences
        /\ queues' = t.queues
        /\ UNCHANGED objectVars

ChainCommandQueueWait ==
    \E q \in Queues, f \in Fences :
        /\ ChainReturns(CommandQueueWaitResult(Now, q, f, ChainValue, TRUE, TRUE))
        /\ UNCHANGED event_objects_

ChainCommandQueueSignal ==
    \E q \in Queues, f \in Fences :
        /\ ChainReturns(CommandQueueSignalResult(Now, q, f, ChainValue, TRUE, TRUE))
        /\ UNCHANGED event_objects_

ChainFenceSignal ==
    \E f \in Fences :
        /\ ChainReturns(FenceSignalResult(Now, f, ChainValue, TRUE, TRUE))
        /\ UNCHANGED event_objects_

ChainNext ==
    \/ ChainCommandQueueWait
    \/ ChainCommandQueueSignal
    \/ ChainFenceSignal

SpecChain == ChainInit /\ [][ChainNext]_vars

\* ------------------------------------------------ record lifetime calls
\* The state the object-side calls start from.
NowW == World(object_info_table_, mapped_memory_, gpu_va_map_, heap_allocations_,
              virtual_memory, host_memory, fences, queues, host_events, active_windows_,
              window_handles_, <<>>)

LiveObjects == {id \in ObjectIds : object_info_table_[id].live}

LiveOf(interface) == {id \in LiveObjects : object_info_table_[id].object.interface = interface}

\* The counters the model keeps.
WithinObjectBounds(t) ==
    \A id \in ObjectIds :
        /\ t.object_info_table_[id].ref_count <= MaxRefCount
        /\ t.object_info_table_[id].extra_ref <= MaxRefCount

\* The replayed call ends in one of the states of `results`.
ObjectReturns(results) ==
    \E t \in results :
        /\ consumer = "replaying"
        /\ WithinObjectBounds(t)
        /\ object_info_table_' = t.object_info_table_
        /\ mapped_memory_' = t.mapped_memory_
        /\ gpu_va_map_' = t.gpu_va_map_
        /\ heap_allocations_' = t.heap_allocations_
        /\ virtual_memory' = t.virtual_memory
        /\ host_memory' = t.host_memory
        /\ fences' = t.fences
        /\ queues' = t.queues
        /\ host_events' = t.host_events
        /\ active_windows_' = t.active_windows_
        /\ window_handles_' = t.window_handles_
        /\ UNCHANGED <<event_objects_, consumer, fatal_error_handler_, fatal_errors, wait, captureVars>>

\* The capture id of the next object created.
FreshObject == {NextId(ObjectIds \ LiveObjects)} \ {NULL}

\* The records GetBuffer(id, buffer) can return: a new record, or the record of
\* the same buffer when the swap chain already holds it in the slot.
GetBufferSurfaces(id, buffer) ==
    LET info == object_info_table_[id].extra_info
    IN {<<surface, TRUE>> : surface \in FreshObject}
           \cup IF info.extra_info_type = "kIDxgiSwapchainInfo"
                   /\ buffer + 1 \in 1..info.image_count
                   /\ info.images[buffer + 1] # NULL
                THEN {<<info.images[buffer + 1], FALSE>>}
                ELSE {}

\* The window the factory creates for a swap chain is told apart by the swap
\* chain's id, and its native handle by the window.
OverrideCreateSwapChain ==
    \E id \in FreshObject, hwnd_id \in HwndIds, buffer_count \in 1..MaxBuffers, replay_ok \in BOOLEAN :
        \E window \in {NULL, id} :
            \E hwnd \in {NULL, window} :
                ObjectReturns(CreateSwapChainResult(NowW, id, hwnd_id, buffer_count, window, hwnd,
                                                    replay_ok))

OverrideAddRef ==
    \E id \in LiveObjects : ObjectReturns(AddRefResult(NowW, id))

OverrideRelease ==
    \E id \in LiveObjects :
        /\ object_info_table_[id].ref_count > 0
        /\ ObjectReturns(ReleaseResult(NowW, id))

\* The driver returns a buffer only for an index below its buffer count.
OverrideGetBuffer ==
    \E id \in LiveOf("IDXGISwapChain"), buffer \in 0..(MaxBuffers - 1), replay_ok \in BOOLEAN :
        \E s \in GetBufferSurfaces(id, buffer) :
            /\ replay_ok => buffer < object_info_table_[id].object.BufferCount
            /\ ObjectReturns(GetBufferResult(NowW, id, buffer, s[1], s[2], replay_ok))

OverrideResizeBuffers ==
    \E id \in LiveOf("IDXGISwapChain"), buffer_count \in 0..MaxBuffers, replay_ok \in BOOLEAN :
        ObjectReturns(ResizeBuffersResult(NowW, id, buffer_count, replay_ok))

OverrideResizeBuffers1 ==
    \E id \in LiveOf("IDXGISwapChain"), buffer_count \in 0..MaxBuffers, replay_ok \in BOOLEAN :
        ObjectReturns(ResizeBuffersResult(NowW, id, buffer_count, replay_ok))

LifetimeNext ==
    \/ OverrideCreateSwapChain
    \/ OverrideAddRef
    \/ OverrideRelease
    \/ OverrideGetBuffer
    \/ OverrideResizeBuffers
    \/ OverrideResizeBuffers1

SpecLifetime == Init /\ [][LifetimeNext]_vars

\* -------------------------------------------------- mapped memory calls
MaxResources == 2
Bytes == 0..1

\* The fills of `size` bytes.
FillData(size) == [1..size -> Bytes]

Resources == LiveOf("ID3D12Resource")

\* The map counts the model keeps.
WithinMemoryBounds(t) ==
    \A id \in ObjectIds :
        LET extra_info == t.object_info_table_[id].extra_info
        IN extra_info.extra_info_type = "kID3D12ResourceInfo" =>
               \A sub \in DOMAIN extra_info.mapped_memory_info :
                   extra_info.mapped_memory_info[sub].count <= MaxMapCount

MemoryReturns(results) ==
    ObjectReturns({t \in results : WithinMemoryBounds(t)})

CreateResource ==
    /\ Cardinality(Resources) < MaxResources
    /\ \E id \in FreshObject, replay_ok \in BOOLEAN :
           MemoryReturns(CreateResourceResult(NowW, id, replay_ok))

OverrideResourceMap ==
    \E id \in Resources, subresource \in Subresources, memory_id \in MemoryIds \cup {NULL},
       data \in HostPointers \cup {NULL}, replay_ok \in BOOLEAN :
        MemoryReturns(ResourceMapResult(NowW, id, subresource, memory_id, data, replay_ok))

\* Unmap is replayed for a subresource the capture had mapped.
OverrideResourceUnmap ==
    \E id \in Resources, subresource \in Subresources :
        MemoryReturns(ResourceUnmapResult(NowW, id, subresource))

ReleaseResource ==
    \E id \in Resources : MemoryReturns(ReleaseResult(NowW, id))

\* The fill lies within the bytes behind the pointer.
ProcessFillMemoryCommand ==
    \E memory_id \in MemoryIds, offset \in 0..MaxFill, size \in 0..MaxFill :
        /\ offset + size <= MaxFill
        /\ \E data \in FillData(size) :
               MemoryReturns(FillMemoryResult(NowW, memory_id, offset, size, data))

MemoryNext ==
    \/ CreateResource
    \/ OverrideResourceMap
    \/ OverrideResourceUnmap
    \/ ReleaseResource
    \/ ProcessFillMemoryCommand

SpecMemory == Init /\ [][MemoryNext]_vars

\* ------------------------------------------------ GPU virtual addresses
Addresses == 0..MaxAddress

CreateAddressedResource ==
    \E id \in FreshObject, replay_ok \in BOOLEAN :
        ObjectReturns(CreateResourceResult(NowW, id, replay_ok))

OverrideGetGpuVirtualAddress ==
    \E id \in Resources, original_result \in Addresses, replay_result \in Addresses :
        ObjectReturns(GetGpuVirtualAddressResult(NowW, id, original_result, replay_result))

GpuVaNext ==
    \/ CreateAddressedResource
    \/ OverrideGetGpuVirtualAddress
    \/ OverrideAddRef
    \/ OverrideRelease

SpecGpuVa == Init /\ [][GpuVaNext]_vars

\* ------------------------------------------------------ result checks
MaxFatalErrors == 2

\* The HRESULT values a checked call returns: the failure codes, S_OK and S_FALSE.
CheckedResults == HResults \cup {1}

\* The callback the replay tool installs, as a non-null pointer.
ReplayToolHandler == 1

SetFatalErrorHandler ==
    /\ fatal_error_handler_ = NULL
    /\ fatal_error_handler_' = ReplayToolHandler
    /\ UNCHANGED <<syncVars, object_info_table_, mapped_memory_, gpu_va_map_, heap_allocations_,
                   virtual_memory, host_memory, consumer, fatal_errors, host_events, wait,
                   active_windows_, window_handles_, captureVars>>

OverrideD3D12CreateDevice ==
    \E id \in FreshObject, replay_ok \in BOOLEAN :
        ObjectReturns(CreateDeviceResult(NowW, id, replay_ok))

\* Process_ID3D12Device_CheckFeatureSupport(object_id, original_result, ...):
\* the call is replayed and checked when the device is mapped and there is
\* feature data.
Process_ID3D12Device_CheckFeatureSupport ==
    \E object_id \in ObjectIds, has_feature_data \in BOOLEAN,
       original_result \in CheckedResults, replay_result \in CheckedResults :
        /\ consumer = "replaying"
        /\ fatal_errors' =
               IF object_id \in LiveOf("ID3D12Device") /\ has_feature_data
               THEN CheckReplayResult(fatal_errors, fatal_error_handler_,
                                      original_result, replay_result).fatal_errors
               ELSE fatal_errors
        /\ Len(fatal_errors') <= MaxFatalErrors
        /\ UNCHANGED <<syncVars, object_info_table_, mapped_memory_, gpu_va_map_, heap_allocations_,
                       virtual_memory, host_memory, consumer, fatal_error_handler_, host_events, wait,
                       active_windows_, window_handles_, captureVars>>

\* -------------------------------------------------- heap allocation calls
NumAllocationIds == 2
AllocationIds == 1..NumAllocationIds

\* The pointers VirtualAlloc can return: pages not handed out before, or
\* nullptr when the allocation fails.
VirtualAllocResults == {p \in Pointers : virtual_memory[p] = "unused"} \cup {NULL}

\* A build with assertions stops at a failed assert.
Aborted(t) == \E n \in 1..Len(t.log) : t.log[n].call = "assert"

HeapReturns(results, state) ==
    \E t \in results :
        /\ consumer = "replaying"
        /\ WithinObjectBounds(t)
        /\ object_info_table_' = t.object_info_table_
        /\ mapped_memory_' = t.mapped_memory_
        /\ gpu_va_map_' = t.gpu_va_map_
        /\ heap_allocations_' = t.heap_allocations_
        /\ virtual_memory' = t.virtual_memory
        /\ host_memory' = t.host_memory
        /\ consumer' = IF Aborted(t) THEN "aborted" ELSE state
        /\ fences' = t.fences
        /\ queues' = t.queues
        /\ host_events' = t.host_events
        /\ active_windows_' = t.active_windows_
        /\ window_handles_' = t.window_handles_
        /\ UNCHANGED <<fatal_error_handler_, fatal_errors, wait, captureVars>>

ProcessCreateHeapAllocationCommand ==
    \E allocation_id \in AllocationIds, heap_allocation \in VirtualAllocResults :
        /\ HeapReturns(CreateHeapAllocationResult(NowW, allocation_id, heap_allocation), "replaying")
        /\ UNCHANGED event_objects_

OverrideOpenExistingHeapFromAddress ==
    \E allocation_id \in AllocationIds, heap \in FreshObject, replay_result \in HResults :
        /\ HeapReturns(OpenExistingHeapFromAddressResult(NowW, allocation_id, heap, replay_result),
                       "replaying")
        /\ UNCHANGED event_objects_

Destructor ==
    \E outcomes \in [CommandQueueRecords(NowW) -> DriverOutcomes] :
        /\ wait = NoWait
        /\ HeapReturns(DestructorResult(NowW, outcomes), "destroyed")
        /\ event_objects_' = {}

HeapNext ==
    \/ ProcessCreateHeapAllocationCommand
    \/ OverrideOpenExistingHeapFromAddress
    \/ OverrideAddRef
    \/ OverrideRelease
    \/ Destructor

SpecHeap == Init /\ [][HeapNext]_vars

\* ------------------------------------------- calls that report errors
ErrorsNext ==
    \/ SetFatalErrorHandler
    \/ OverrideD3D12CreateDevice
    \/ Process_ID3D12Device_CheckFeatureSupport
    \/ ProcessCreateHeapAllocationCommand
    \/ OverrideOpenExistingHeapFromAddress
    \/ OverrideRelease

SpecErrors == Init /\ [][ErrorsNext]_vars

\* ------------------------------------------------ waits on host events
\* Mutant: the driver's value is returned.
GetCompletedValueResult_Driver(s, f, original_result, replay_result, event_handle) ==
    {Logged(s, ReturnLog(replay_result))}

\* UINT64 OverrideGetCompletedValue(fence, original_result).  `replay_result`
\* is the driver's completed value and `event_handle` what
\* GetEventObject(kInternalEventId, true) returned.
GetCompletedValueResult(s, f, original_result, replay_result, event_handle) ==
    LET s1 == IF s.fences[f].created
              THEN IF original_result > replay_result /\ event_handle # NULL
                   THEN Logged(Logged(s, LogEntry("ID3D12Fence::SetEventOnCompletion", NULL, f,
                                                  original_result, event_handle)),
                               LogEntry("WaitForSingleObject", NULL, f, event_handle, 0))
                   ELSE s
              ELSE Logged(s, LogEntry("GFXRECON_LOG_FATAL", NULL, f, original_result, 0))
    IN {Logged(s1, ReturnLog(original_result))}

\* Whether the call whose log is lg reached a WaitForSingleObject.
Waits(lg) == \E n \in 1..Len(lg) : lg[n].call = "WaitForSingleObject"

\* The wait a call with log lg blocks in, on event_handle.
WaitOf(lg, event_handle) ==
    IF Waits(lg)
    THEN [event |-> event_handle, timeout |-> kDefaultWaitTimeout, elapsed |-> 0]
    ELSE NoWait

\* What WaitForSingleObject returns with, or "pending" while it blocks.
WaitResult(w, events) ==
    IF w.event \in events.signaled THEN "WAIT_OBJECT_0"
    ELSE IF w.timeout # INFINITE /\ w.elapsed >= w.timeout THEN "WAIT_TIMEOUT"
    ELSE "pending"

\* The replay thread runs: it is not blocked in a wait.
Running == consumer = "replaying" /\ wait = NoWait

EventsUnchanged ==
    UNCHANGED <<object_info_table_, mapped_memory_, gpu_va_map_, heap_allocations_, virtual_memory,
                host_memory, consumer, fatal_error_handler_, fatal_errors, active_windows_,
                window_handles_, captureVars>>

EventsCreateFence == Running /\ OverrideCreateFence

EventsFenceSignal == Running /\ OverrideFenceSignal

\* OverrideGetCompletedValue up to the point where it blocks or returns.
OverrideGetCompletedValue ==
    \E f \in CreatedFences, original_result \in Values, replay_result \in Values,
       create_ok \in BOOLEAN :
        LET got == IF original_result > replay_result
                   THEN GetEventObjectHandle(host_events, kInternalEventId, TRUE, create_ok)
                   ELSE GotEvent(NULL, host_events, <<>>)
        IN /\ Running
           /\ \E t \in GetCompletedValueResult(Now, f, original_result, replay_result, got.event) :
                  /\ fences' = t.fences
                  /\ queues' = t.queues
                  /\ wait' = WaitOf(t.log, got.event)
           /\ host_events' = got.host_events
           /\ event_objects_' = DOMAIN got.host_events.handle
           /\ EventsUnchanged

\* OverrideSetEventOnCompletion up to the point where it blocks or returns.
EventsSetEventOnCompletion ==
    \E in \in FenceCallInputs, event_id \in Events, create_ok \in BOOLEAN :
        LET got == IF in[3] THEN GetEventObjectHandle(host_events, event_id, TRUE, create_ok)
                   ELSE GotEvent(NULL, host_events, <<>>)
        IN /\ Running
           /\ \E t \in SetEventOnCompletionResult(Now, in[1], in[2], got.event, in[3], in[4]) :
                  /\ WithinBounds(t)
                  /\ fences' = t.fences
                  /\ queues' = t.queues
                  /\ wait' = WaitOf(t.log, got.event)
           /\ host_events' = got.host_events
           /\ event_objects_' = DOMAIN got.host_events.handle
           /\ EventsUnchanged

\* The driver signals an event it was given, when the fence reaches the value.
DriverSetsEvent ==
    \E event_object \in Handles(host_events) \ host_events.signaled :
        /\ host_events' = [host_events EXCEPT !.signaled = @ \cup {event_object}]
        /\ UNCHANGED <<syncVars, wait>>
        /\ EventsUnchanged

\* Time passes while the replay thread is blocked.
Tick ==
    /\ wait # NoWait
    /\ wait.elapsed < MaxElapsed
    /\ wait' = [wait EXCEPT !.elapsed = @ + 1]
    /\ UNCHANGED <<syncVars, host_events>>
    /\ EventsUnchanged

\* WaitForSingleObject returns, and with it the call that waited.
WaitForSingleObjectReturns ==
    /\ wait # NoWait
    /\ WaitResult(wait, host_events) # "pending"
    /\ wait' = NoWait
    /\ UNCHANGED <<syncVars, host_events>>
    /\ EventsUnchanged

EventsNext ==
    \/ EventsCreateFence
    \/ EventsFenceSignal
    \/ OverrideGetCompletedValue
    \/ EventsSetEventOnCompletion
    \/ DriverSetsEvent
    \/ Tick
    \/ WaitForSingleObjectReturns

SpecEvents == Init /\ [][EventsNext]_vars

\* The replay thread is scheduled: time passes and a wait that can return does.
\* Nothing obliges the driver to signal an event.
SpecEventsFair ==
    SpecEvents /\ WF_vars(Tick) /\ WF_vars(WaitForSingleObjectReturns)

\* ------------------------------------------------------ calls before shutdown
\* The records and the pool entries the replay has at shutdown.
MaxShutdownObjects == 2
MaxShutdownAllocations == 1

\* The replay thread runs and may create another record.
MayCreate == wait = NoWait /\ Cardinality(LiveObjects) < MaxShutdownObjects

\* The replay runs with the --sync option.
ShutdownCreateCommandQueue ==
    \E id \in FreshObject, q \in {NextId(Queues \ CreatedQueues)} \ {NULL},
       replay_ok \in BOOLEAN, fence_ok \in BOOLEAN, event_ok \in BOOLEAN :
        /\ MayCreate
        /\ ObjectReturns(CreateCommandQueueRecord(NowW, id, q, TRUE, replay_ok, fence_ok, event_ok))

ShutdownCreateFence ==
    \E id \in FreshObject, f \in {NextId(Fences \ CreatedFences)} \ {NULL},
       initial_value \in {0}, replay_ok \in BOOLEAN :
        /\ MayCreate
        /\ ObjectReturns(CreateFenceRecord(NowW, id, f, initial_value, replay_ok))

ShutdownCreateSwapChain == MayCreate /\ OverrideCreateSwapChain

ShutdownAddRef == wait = NoWait /\ OverrideAddRef

ShutdownCreateHeapAllocation ==
    /\ wait = NoWait
    /\ Cardinality(DOMAIN heap_allocations_) < MaxShutdownAllocations
    /\ ProcessCreateHeapAllocationCommand

\* The driver signals the event of the fence the replay thread waits for.
ShutdownDriverSetsEvent ==
    /\ wait # NoWait
    /\ wait.event \notin host_events.signaled
    /\ host_events' = [host_events EXCEPT !.signaled = @ \cup {wait.event}]
    /\ UNCHANGED <<syncVars, wait>>
    /\ EventsUnchanged

ShutdownNext ==
    \/ ShutdownCreateCommandQueue
    \/ ShutdownCreateFence
    \/ ShutdownCreateSwapChain
    \/ ShutdownAddRef
    \/ ShutdownCreateHeapAllocation
    \/ OverrideGetCompletedValue
    \/ ShutdownDriverSetsEvent
    \/ WaitForSingleObjectReturns
    \/ Destructor

SpecShutdown == Init /\ [][ShutdownNext]_vars

\* ------------------------------------------- replay with the --sync option
\* The largest sync_value the model lets a queue reach.
MaxSyncValue == 2

\* The queue and fence records of the replay.
MaxSyncObjects == 2

WithinSyncBounds(t) == \A q \in Queues : t.queues[q].sync_value <= MaxSyncValue

SyncCreateCommandQueue ==
    \E id \in FreshObject, q \in {NextId(Queues \ CreatedQueues)} \ {NULL},
       replay_ok \in BOOLEAN, fence_ok \in BOOLEAN, event_ok \in BOOLEAN :
        /\ Cardinality(LiveObjects) < MaxSyncObjects
        /\ ObjectReturns(CreateCommandQueueRecord(NowW, id, q, TRUE, replay_ok, fence_ok, event_ok))

SyncCreateFence ==
    \E id \in FreshObject, f \in {NextId(Fences \ CreatedFences)} \ {NULL},
       initial_value \in {0}, replay_ok \in BOOLEAN :
        /\ Cardinality(LiveObjects) < MaxSyncObjects
        /\ ObjectReturns(CreateFenceRecord(NowW, id, f, initial_value, replay_ok))

OverrideExecuteCommandLists ==
    \E q \in CreatedQueues, is_null \in BOOLEAN :
        /\ Returns({t \in ExecuteCommandListsResult(Now, q, TRUE, is_null) : WithinSyncBounds(t)})
        /\ UNCHANGED event_objects_

\* WaitIdle, called on its own to let the queues drain.
SyncWaitIdle ==
    \E outcomes \in [CommandQueueRecords(NowW) -> DriverOutcomes] :
        /\ ObjectReturns({t \in {WaitIdle(NowW, CommandQueueRecords(NowW), outcomes)} :
                             WithinSyncBounds(t)})

SyncNext ==
    \/ SyncCreateCommandQueue
    \/ SyncCreateFence
    \/ OverrideExecuteCommandLists
    \/ OverrideCommandQueueSignal
    \/ OverrideCommandQueueWait
    \/ OverrideFenceSignal
    \/ SyncWaitIdle

SpecSync == Init /\ [][SyncNext]_vars

\* ------------------------------------- teardown of fence and queue records
\* DestroyObjectExtraInfo on a fence record, from the RemoveObject of its last
\* Release: no branch handles kID3D12FenceInfo, and extra_info.reset() destroys
\* the D3D12FenceInfo with its waiting_objects.
DestroyFenceInfo(s, f) == {[s EXCEPT !.fences[f] = NoFenceInfo]}

\* DestroyObjectExtraInfo on a command queue record: the kID3D12CommandQueueInfo
\* branch closes sync_event, and extra_info.reset() destroys the
\* D3D12CommandQueueInfo with its pending_events.
DestroyCommandQueueInfo(s, q) == {[s EXCEPT !.queues[q] = NoQueueInfo]}

\* The fence records that pending_events entries refer to, and the queue
\* records that wait_queues lists refer to.
ReferencedFences(s) ==
    {s.queues[q].pending_events[n].fence_info :
        <<q, n>> \in {x \in Queues \X (1..MaxPending) : x[2] <= Len(s.queues[x[1]].pending_events)}}

ReferencedQueues(s) ==
    UNION {UNION {{s.fences[f].waiting_objects[k].wait_queues[n] :
                      n \in 1..Len(s.fences[f].waiting_objects[k].wait_queues)} :
                  k \in Keys(s.fences[f].waiting_objects)} :
           f \in Fences}

\* No entry refers to a destroyed record: the calls run on live records.
Intact ==
    /\ \A f \in ReferencedFences(Now) : fences[f].created
    /\ \A q \in ReferencedQueues(Now) : queues[q].created

ReleaseFence ==
    \E f \in CreatedFences :
        /\ Returns(DestroyFenceInfo(Now, f))
        /\ UNCHANGED event_objects_

ReleaseCommandQueue ==
    \E q \in CreatedQueues :
        /\ Returns(DestroyCommandQueueInfo(Now, q))
        /\ UNCHANGED event_objects_

TeardownCreateCommandQueue == Intact /\ OverrideCreateCommandQueue

TeardownCreateFence == Intact /\ OverrideCreateFence

TeardownCommandQueueSignal == Intact /\ OverrideCommandQueueSignal

TeardownCommandQueueWait == Intact /\ OverrideCommandQueueWait

TeardownFenceSignal == Intact /\ OverrideFenceSignal

\* The replay up to the first call that would run on a destroyed record.
TeardownNext ==
    \/ TeardownCreateCommandQueue
    \/ TeardownCreateFence
    \/ TeardownCommandQueueSignal
    \/ TeardownCommandQueueWait
    \/ TeardownFenceSignal
    \/ ReleaseFence
    \/ ReleaseCommandQueue

SpecTeardown == Init /\ [][TeardownNext]_vars

\* ================================================================ claims
\* What a signal of (f, value) that is processed at once can return with: the
\* three overrides that call ProcessFenceSignal directly.
DirectSignalResults(f, value) ==
    FenceSignalResult(Now, f, value, TRUE, TRUE)
        \cup EnqueueMakeResidentResult(Now, f, value, TRUE)
        \cup UNION {CommandQueueSignalResult(Now, q, f, value, TRUE, TRUE) :
                        q \in {x \in CreatedQueues : queues[x].pending_events = <<>>}}

\* Every state some successful synchronizer call can return with from here.
AnyCallResults ==
    UNION {CommandQueueSignalResult(Now, q, f, value, TRUE, TRUE) \cup
           CommandQueueWaitResult(Now, q, f, value, TRUE, TRUE) :
               q \in CreatedQueues, f \in CreatedFences, value \in Values}
        \cup UNION {FenceSignalResult(Now, f, value, TRUE, TRUE) \cup
                    EnqueueMakeResidentResult(Now, f, value, TRUE) :
                        f \in CreatedFences, value \in Values}

IsPop(e) == e.call \in {"pop_wait", "pop_signal"}

\* The entries a call popped from queue q, in the order it popped them.
Pops(lg, q) == SelectSeq(lg, LAMBDA e : IsPop(e) /\ e.queue = q)

C2_KeysAboveLastSignaled ==
    \A f \in CreatedFences :
        \A k \in Keys(fences[f].waiting_objects) : k > fences[f].last_signaled_value

\* C3 (as claimed): ProcessFenceSignal(F, v) with lo = F.last_signaled_value
\* calls SignalWaitingQueue(queue, F, k) for every key k with lo < k <= v and
\* every queue registered under k, passing the key k, whether or not a waiter is
\* registered at exactly v; afterwards the keys in (lo, v] are erased and the
\* keys above v remain.
C3_NotifiesRange ==
    \A f \in CreatedFences, value \in Values :
        LET m == fences[f].waiting_objects
            range == {k \in Keys(m) : fences[f].last_signaled_value < k /\ k <= value}
        IN \A t \in FenceSignalResult(Now, f, value, TRUE, TRUE) :
               /\ \A k \in range : \A n \in 1..Len(m[k].wait_queues) :
                      \E i \in 1..Len(t.log) :
                          t.log[i] = LogEntry("SignalWaitingQueue", m[k].wait_queues[n], f, k, k)
               /\ Keys(t.fences[f].waiting_objects) = Keys(m) \ range

\* The wait at position i of queue q is an unresolved wait on (f, value) that
\* is still registered with the fence and that the fence has not reached.
WaitPending(q, i, f, value) ==
    /\ i \in 1..Len(queues[q].pending_events)
    /\ queues[q].pending_events[i] = QueueSyncEventInfo(TRUE, FALSE, f, value)
    /\ value > fences[f].last_signaled_value
    /\ value \in Keys(fences[f].waiting_objects)
    /\ \E n \in 1..Len(fences[f].waiting_objects[value].wait_queues) :
           fences[f].waiting_objects[value].wait_queues[n] = q

\* The call whose log is lg popped the entry at position i of queue q only after
\* SignalWaitingQueue(q, f, value) was called for a signal of f at value.
PoppedAfterSignal(lg, q, i, f, value) ==
    Len(Pops(lg, q)) >= i =>
        \E n \in 1..Len(lg) :
            /\ lg[n].call = "SignalWaitingQueue" /\ lg[n].queue = q
            /\ lg[n].fence = f /\ lg[n].value = value
            /\ Len(Pops(SubSeq(lg, 1, n), q)) < i

SameEvent(e, x) ==
    /\ x.is_wait = (e.call = "pop_wait")
    /\ x.fence_info = e.fence
    /\ x.value = e.value

\* C5: within one queue a signal never fires before an earlier wait: a
\* Signal(Q, G, w) replayed while Q.pending_events is not empty only appends the
\* signal entry and changes no fence, and a call pops a signal entry of Q (and
\* processes it) only after popping every entry that was ahead of it, each wait
\* among them having been signaled.
C5_SignalBehindWait ==
    /\ \A q \in CreatedQueues, f \in CreatedFences, value \in Values :
           queues[q].pending_events # <<>> =>
               CommandQueueSignalResult(Now, q, f, value, TRUE, TRUE) =
                   {St(fences,
                       [queues EXCEPT ![q].pending_events =
                            Append(@, QueueSyncEventInfo(FALSE, FALSE, f, value))],
                       <<>>)}
    /\ \A t \in AnyCallResults : \A q \in CreatedQueues :
           LET pops == Pops(t.log, q)
               old == queues[q].pending_events
           IN /\ \A n \in 1..Len(pops) :
                     pops[n].call = "pop_signal" =>
                         /\ n <= Len(old)
                         /\ \A m \in 1..n :
                                /\ SameEvent(pops[m], old[m])
                                /\ old[m].is_wait =>
                                       \/ old[m].is_signaled
                                       \/ \E j \in 1..Len(t.log) :
                                              /\ t.log[j].call = "SignalWaitingQueue"
                                              /\ t.log[j].queue = q
                                              /\ t.log[j].fence = old[m].fence_info
                                              /\ t.log[j].value = old[m].value
              /\ \A i \in 1..Len(t.log) :
                     (t.log[i].call = "ProcessFenceSignal" /\ t.log[i].queue = q) =>
                         /\ i > 1
                         /\ t.log[i - 1].call = "pop_signal"
                         /\ t.log[i - 1].queue = q

\* A queue holds a wait followed by a signal, and a signal of the wait's fence
\* releases both.
C5_Witness ==
    \E q \in CreatedQueues, f \in CreatedFences, value \in Values :
        /\ WaitPending(q, 1, f, value)
        /\ Len(queues[q].pending_events) = 2
        /\ ~queues[q].pending_events[2].is_wait
        /\ \E t \in FenceSignalResult(Now, f, value, TRUE, TRUE) :
               /\ Len(Pops(t.log, q)) = 2
               /\ Pops(t.log, q)[2].call = "pop_signal"

\* C6: pending_events is FIFO: the entries a call pops from a queue are, in
\* order, the first entries the queue held, and what remains are the following
\* entries in their order with at most one new entry behind them.
C6_FifoPrefix ==
    \A t \in AnyCallResults : \A q \in CreatedQueues :
        LET pops == Pops(t.log, q)
            old == queues[q].pending_events
            new == t.queues[q].pending_events
            k == Len(pops)
        IN /\ k <= Len(old)
           /\ \A n \in 1..k : SameEvent(pops[n], old[n])
           /\ Len(new) \in {Len(old) - k, Len(old) - k + 1}
           /\ \A n \in 1..(Len(old) - k) :
                  /\ new[n].is_wait = old[k + n].is_wait
                  /\ new[n].fence_info = old[k + n].fence_info
                  /\ new[n].value = old[k + n].value
                  /\ old[k + n].is_signaled => new[n].is_signaled

\* A queue with two pending entries, of which a call pops the first and keeps
\* the second.
C6_Witness ==
    \E q \in CreatedQueues :
        /\ Len(queues[q].pending_events) = 2
        /\ \E t \in AnyCallResults :
               Len(Pops(t.log, q)) = 1 /\ Len(t.queues[q].pending_events) = 1

\* C7 (as claimed): when the drain loop of SignalWaitingQueue removes a signal
\* entry from the front of a queue, it calls ProcessFenceSignal with the fence
\* and the value of that removed entry.
C7_DrainedSignalOwnFence ==
    \A t \in AnyCallResults : \A i \in 1..Len(t.log) :
        (t.log[i].call = "ProcessFenceSignal" /\ t.log[i].queue # NULL) =>
            /\ i > 1
            /\ t.log[i - 1] = LogEntry("pop_signal", t.log[i].queue,
                                       t.log[i].fence, t.log[i].value, 0)

\* C8 (as claimed): with Q1.pending_events = [wait(F, a), signal(G, b)] and
\* Q2.pending_events = [wait(G, b), signal(H, c)], processing a signal of F at
\* value a empties Q1, advances G to b, empties Q2 and advances H to c.
C8_TransitivePropagation ==
    \A q1 \in Queues, q2 \in Queues, f \in Fences, g \in Fences, h \in Fences :
        \A a \in Values, b \in Values, c \in Values :
            ( /\ q1 # q2 /\ f # g /\ g # h /\ f # h
              /\ WaitPending(q1, 1, f, a)
              /\ WaitPending(q2, 1, g, b)
              /\ queues[q1].pending_events =
                     <<QueueSyncEventInfo(TRUE, FALSE, f, a), QueueSyncEventInfo(FALSE, FALSE, g, b)>>
              /\ queues[q2].pending_events =
                     <<QueueSyncEventInfo(TRUE, FALSE, g, b), QueueSyncEventInfo(FALSE, FALSE, h, c)>> ) =>
                \A t \in FenceSignalResult(Now, f, a, TRUE, TRUE) :
                    /\ t.queues[q1].pending_events = <<>>
                    /\ t.fences[g].last_signaled_value = b
                    /\ t.queues[q2].pending_events = <<>>
                    /\ t.fences[h].last_signaled_value = c

\* C9: a successful Wait(Q, F, v) with v <= F.last_signaled_value changes
\* nothing; with v > F.last_signaled_value it appends exactly the entry
\* {is_wait, not signaled, F, v} at the tail of Q.pending_events, adds Q at the
\* end of F.waiting_objects[v].wait_queues, and changes nothing else.
C9_WaitEffect ==
    \A q \in CreatedQueues, f \in CreatedFences, value \in Values :
        \A t \in CommandQueueWaitResult(Now, q, f, value, TRUE, TRUE) :
            IF value <= fences[f].last_signaled_value
            THEN t.fences = fences /\ t.queues = queues
            ELSE /\ t.queues[q].pending_events =
                        Append(queues[q].pending_events, QueueSyncEventInfo(TRUE, FALSE, f, value))
                 /\ \A x \in Queues \ {q} : t.queues[x] = queues[x]
                 /\ t.queues[q].created
                 /\ \A g \in Fences \ {f} : t.fences[g] = fences[g]
                 /\ t.fences[f].last_signaled_value = fences[f].last_signaled_value
                 /\ Keys(t.fences[f].waiting_objects) = Keys(fences[f].waiting_objects) \cup {value}
                 /\ \A k \in Keys(fences[f].waiting_objects) \ {value} :
                        t.fences[f].waiting_objects[k] = fences[f].waiting_objects[k]
                 /\ t.fences[f].waiting_objects[value].wait_queues =
                        IF value \in Keys(fences[f].waiting_objects)
                        THEN Append(fences[f].waiting_objects[value].wait_queues, q)
                        ELSE <<q>>
                 /\ t.fences[f].waiting_objects[value].wait_events =
                        IF value \in Keys(fences[f].waiting_objects)
                        THEN fences[f].waiting_objects[value].wait_events
                        ELSE <<>>

\* A wait was enqueued behind another entry and registered with its fence, and
\* some fence has a signaled value that a further Wait finds already reached.
C9_Witness ==
    /\ \E q \in CreatedQueues, f \in CreatedFences :
           /\ Len(queues[q].pending_events) = 2
           /\ queues[q].pending_events[2].is_wait
           /\ queues[q].pending_events[2].fence_info = f
           /\ queues[q].pending_events[2].value \in Keys(fences[f].waiting_objects)
    /\ \E f \in CreatedFences : fences[f].last_signaled_value >= 1

\* C10: a successful Signal(Q, F, v) on a queue whose pending_events is empty is
\* processed at once: when the call returns F.last_signaled_value = v and
\* Q.pending_events is still empty; a fence created with initial value i has
\* last_signaled_value i until then.
C10_SignalOnEmptyQueue ==
    /\ \A q \in CreatedQueues, f \in CreatedFences, value \in Values :
           queues[q].pending_events = <<>> =>
               \A t \in CommandQueueSignalResult(Now, q, f, value, TRUE, TRUE) :
                   /\ t.fences[f].last_signaled_value = value
                   /\ t.queues[q].pending_events = <<>>
    /\ \A f \in Fences \ CreatedFences, initial_value \in Values :
           \A t \in CreateFenceResult(Now, f, initial_value, TRUE) :
               t.fences[f].last_signaled_value = initial_value

\* A signal on an empty queue that wakes another queue, in a state where some
\* fence has already been signaled.
C10_Witness ==
    \E q \in CreatedQueues, f \in CreatedFences, value \in Values :
        /\ queues[q].pending_events = <<>>
        /\ \E t \in CommandQueueSignalResult(Now, q, f, value, TRUE, TRUE) :
               \E n \in 1..Len(t.log) : IsPop(t.log[n])
        /\ \E g \in CreatedFences : fences[g].last_signaled_value > 0

\* What C11 says of SetEventOnCompletion(f, value, event_object) replayed from
\* the current state when it succeeded at capture and on replay.
SetEventEffect(f, value, event_object) ==
    \A t \in SetEventOnCompletionResult(Now, f, value, event_object, TRUE, TRUE) :
        /\ t.queues = queues
        /\ IF value <= fences[f].last_signaled_value
           THEN /\ t.log = <<LogEntry("WaitForSingleObject", NULL, f, event_object, 0)>>
                /\ t.fences = fences
           ELSE /\ t.log = <<>>
                /\ \A g \in Fences \ {f} : t.fences[g] = fences[g]
                /\ t.fences[f].last_signaled_value = fences[f].last_signaled_value
                /\ Keys(t.fences[f].waiting_objects) = Keys(fences[f].waiting_objects) \cup {value}
                /\ \A k \in Keys(fences[f].waiting_objects) \ {value} :
                       t.fences[f].waiting_objects[k] = fences[f].waiting_objects[k]
                /\ t.fences[f].waiting_objects[value].wait_events =
                       IF value \in Keys(fences[f].waiting_objects)
                       THEN Append(fences[f].waiting_objects[value].wait_events, event_object)
                       ELSE <<event_object>>
                /\ t.fences[f].waiting_objects[value].wait_queues =
                       IF value \in Keys(fences[f].waiting_objects)
                       THEN fences[f].waiting_objects[value].wait_queues
                       ELSE <<>>

C12_CaptureFailureSkipped ==
    \A original_result \in {hr \in HResults : FAILED(hr)}, replay_result \in HResults :
        LET original_ok == SUCCEEDED(original_result)
            replay_ok == SUCCEEDED(replay_result)
        IN /\ FenceOpReturn(original_result, replay_result) =
                  [driver_called |-> FALSE, result |-> original_result]
           /\ \A q \in CreatedQueues, f \in CreatedFences \cup {NULL}, value \in Values :
                  /\ CommandQueueSignalResult(Now, q, f, value, original_ok, replay_ok) = {Now}
                  /\ CommandQueueWaitResult(Now, q, f, value, original_ok, replay_ok) = {Now}
           /\ \A f \in CreatedFences, value \in Values :
                  /\ FenceSignalResult(Now, f, value, original_ok, replay_ok) = {Now}
                  /\ \A event_id \in Events, create_ok \in BOOLEAN :
                         /\ SetEventOnCompletionCache(event_objects_, event_id, create_ok, original_ok)
                                = event_objects_
                         /\ SetEventOnCompletionResult(
                                Now, f, value, GetEventObject(event_objects_, event_id, create_ok).event,
                                original_ok, replay_ok) = {Now}

\* A state in which each of the four calls would act had it succeeded at
\* capture: a queue with a pending wait, a fence the wait is registered with,
\* and no event object cached yet.
C12_Witness ==
    /\ event_objects_ = {}
    /\ \E q \in CreatedQueues, f \in CreatedFences, value \in Values :
           /\ WaitPending(q, 1, f, value)
           /\ FenceSignalResult(Now, f, value, TRUE, TRUE) # {Now}
           /\ CommandQueueSignalResult(Now, q, f, value, TRUE, TRUE) # {Now}
           /\ SetEventOnCompletionCache(event_objects_, 1, TRUE, TRUE) # event_objects_

\* Every state an AddRef, a Release, a GetBuffer or a ResizeBuffers can return
\* with from here.
LifetimeCallResults ==
    UNION {AddRefResult(NowW, id) : id \in LiveObjects}
        \cup UNION {ReleaseResult(NowW, id) :
                        id \in {x \in LiveObjects : object_info_table_[x].ref_count > 0}}
        \cup UNION {ResizeBuffersResult(NowW, id, buffer_count, TRUE) :
                        id \in LiveOf("IDXGISwapChain"), buffer_count \in 0..MaxBuffers}
        \cup UNION {UNION {GetBufferResult(NowW, id, buffer, s[1], s[2], TRUE) :
                               s \in GetBufferSurfaces(id, buffer)} :
                        id \in LiveOf("IDXGISwapChain"),
                        buffer \in {b \in 0..(MaxBuffers - 1) :
                                        \E x \in LiveOf("IDXGISwapChain") :
                                            b < object_info_table_[x].object.BufferCount}}

Removals(lg) == SelectSeq(lg, LAMBDA e : e.call \in {"RemoveObject", "RemoveObject of a removed record"})

\* C13: a record leaves the object info table exactly when ref_count and
\* extra_ref are both 0: no live record has both counters 0, a call removes only
\* live records whose counters are both 0, each of them once, every other
\* record stays, and a swap chain slot never refers to a removed record.
C13_RecordLifetime ==
    /\ \A id \in LiveObjects :
           object_info_table_[id].ref_count > 0 \/ object_info_table_[id].extra_ref > 0
    /\ \A id \in LiveOf("IDXGISwapChain") :
           LET info == object_info_table_[id].extra_info
           IN \A i \in 1..info.image_count :
                  info.images[i] # NULL =>
                      /\ info.images[i] \in LiveObjects
                      /\ object_info_table_[info.images[i]].extra_ref > 0
    /\ \A t \in LifetimeCallResults :
           LET removed == Removals(t.log)
           IN /\ \A n \in 1..Len(removed) :
                     /\ removed[n] = ObjectLog("RemoveObject", removed[n].id, 0, 0)
                     /\ removed[n].id \in LiveObjects
                     /\ ~t.object_info_table_[removed[n].id].live
                     /\ \A m \in 1..Len(removed) : removed[m].id = removed[n].id => m = n
              /\ \A id \in LiveObjects :
                     (\A n \in 1..Len(removed) : removed[n].id # id) =>
                         t.object_info_table_[id].live
              /\ \A id \in ObjectIds :
                     t.object_info_table_[id].live =>
                         \/ t.object_info_table_[id].ref_count > 0
                         \/ t.object_info_table_[id].extra_ref > 0

\* A back buffer that the application released is kept by its slot, and a
\* ResizeBuffers from here removes it.
C13_Witness ==
    \E id \in LiveOf("IDXGISwapChain"), image \in LiveObjects :
        /\ object_info_table_[image].ref_count = 0
        /\ object_info_table_[image].extra_ref = 1
        /\ \E t \in ResizeBuffersResult(NowW, id, 1, TRUE) :
               /\ Len(Removals(t.log)) = 1
               /\ ~t.object_info_table_[image].live

\* C14 (as claimed): a successful GetBuffer(swapchain, i) takes one extra_ref on
\* the returned buffer's record and stores the record in slot i when slot i is
\* empty, leaves the slot and every extra_ref unchanged when slot i is filled,
\* and a record held in a slot is not destroyed by an application Release that
\* brings its ref_count to 0.
C14_GetBufferRetains ==
    /\ \A id \in LiveOf("IDXGISwapChain"), buffer \in 0..(MaxBuffers - 1) :
           buffer < object_info_table_[id].object.BufferCount =>
               \A s \in GetBufferSurfaces(id, buffer) :
                   \A t \in GetBufferResult(NowW, id, buffer, s[1], s[2], TRUE) :
                       LET info == object_info_table_[id].extra_info
                           after == t.object_info_table_[id].extra_info
                           filled == buffer + 1 \in 1..info.image_count /\ info.images[buffer + 1] # NULL
                       IN IF filled
                          THEN /\ after = info
                               /\ \A x \in ObjectIds \ {s[1]} :
                                      t.object_info_table_[x].extra_ref = object_info_table_[x].extra_ref
                               /\ t.object_info_table_[s[1]].extra_ref =
                                      IF s[2] THEN 0 ELSE object_info_table_[s[1]].extra_ref
                          ELSE /\ t.object_info_table_[s[1]].extra_ref =
                                      (IF s[2] THEN 0 ELSE object_info_table_[s[1]].extra_ref) + 1
                               /\ buffer + 1 \in 1..after.image_count
                               /\ after.images[buffer + 1] = s[1]
    /\ \A id \in LiveOf("IDXGISwapChain") :
           LET info == object_info_table_[id].extra_info
           IN \A i \in 1..info.image_count :
                  (info.images[i] # NULL /\ object_info_table_[info.images[i]].ref_count = 1) =>
                      \A t \in ReleaseResult(NowW, info.images[i]) :
                          t.object_info_table_[info.images[i]].live

\* C15: a successful ResizeBuffers or ResizeBuffers1 with buffer count n
\* decrements by one the extra_ref of every record held in a slot, destroys
\* those left with ref_count = 0 and extra_ref = 0, and leaves the swap chain
\* with image_count = n and n empty slots; a failed call changes nothing.
C15_ResizeReleasesSlots ==
    \A id \in LiveOf("IDXGISwapChain"), buffer_count \in 0..MaxBuffers :
        LET info == object_info_table_[id].extra_info
            held == {info.images[i] : i \in 1..info.image_count} \ {NULL}
        IN /\ ResizeBuffersResult(NowW, id, buffer_count, FALSE) = {NowW}
           /\ \A t \in ResizeBuffersResult(NowW, id, buffer_count, TRUE) :
                  /\ t.object_info_table_[id].extra_info.window = info.window
                  /\ t.object_info_table_[id].extra_info.image_count = buffer_count
                  /\ \A i \in 1..buffer_count : t.object_info_table_[id].extra_info.images[i] = NULL
                  /\ \A r \in held :
                         LET before == object_info_table_[r]
                         IN IF before.ref_count = 0 /\ before.extra_ref = 1
                            THEN /\ ~t.object_info_table_[r].live
                                 /\ \E n \in 1..Len(t.log) : t.log[n] = ObjectLog("RemoveObject", r, 0, 0)
                            ELSE /\ t.object_info_table_[r].live
                                 /\ t.object_info_table_[r].extra_ref = before.extra_ref - 1
                                 /\ t.object_info_table_[r].ref_count = before.ref_count
                  /\ \A r \in ObjectIds \ (held \cup {id}) :
                         t.object_info_table_[r] = object_info_table_[r]

\* A swap chain with both slots filled, one buffer still referenced by the
\* application and one kept only by its slot.
C15_Witness ==
    \E id \in LiveOf("IDXGISwapChain") :
        LET info == object_info_table_[id].extra_info
        IN /\ info.image_count = 2
           /\ info.images[1] # NULL /\ info.images[2] # NULL
           /\ object_info_table_[info.images[1]].ref_count = 0
           /\ object_info_table_[info.images[2]].ref_count = 1

\* The memory ids that some live resource record references from a subresource
\* with a count above zero.
ReferencedMemoryIds ==
    {object_info_table_[id].extra_info.mapped_memory_info[sub].memory_id :
        <<id, sub>> \in {x \in Resources \X Subresources :
                            LET extra_info == object_info_table_[x[1]].extra_info
                            IN /\ extra_info.extra_info_type = "kID3D12ResourceInfo"
                               /\ x[2] \in DOMAIN extra_info.mapped_memory_info
                               /\ extra_info.mapped_memory_info[x[2]].count > 0}}

\* C16 (as claimed): in every state reached by Map, Unmap and Release over any
\* resources, subresources and memory ids, a memory id is a key of
\* mapped_memory_ if and only if some live resource record has a subresource
\* whose mapped_memory_info entry carries that memory id with count > 0.
C16_MappedMemoryIndex ==
    Keys(mapped_memory_) = ReferencedMemoryIds

\* The byte the fill puts at position n of the region, or the byte that was there.
ByteAfterFill(old, offset, size, data, n) ==
    IF n > offset /\ n - offset <= size THEN data[n - offset] ELSE old[n]

\* C20: FillMemory(memory_id, offset, size, bytes) with memory_id in the
\* mapped-memory index copies exactly the size bytes to the indexed host
\* pointer plus offset, every other byte and the index staying as they were;
\* with memory_id not in the index it writes nothing, issues a warning and
\* changes no state.
C20_FillMemory ==
    \A memory_id \in MemoryIds, offset \in 0..MaxFill, size \in 0..MaxFill :
        offset + size <= MaxFill =>
            \A data \in FillData(size) :
                \A t \in FillMemoryResult(NowW, memory_id, offset, size, data) :
                    /\ t.mapped_memory_ = mapped_memory_
                    /\ t.object_info_table_ = object_info_table_
                    /\ t.gpu_va_map_ = gpu_va_map_
                    /\ t.heap_allocations_ = heap_allocations_
                    /\ t.virtual_memory = virtual_memory
                    /\ IF memory_id \in Keys(mapped_memory_)
                       THEN /\ t.log = <<>>
                            /\ \A p \in HostPointers, n \in 1..MaxFill :
                                   t.host_memory[p][n] =
                                       IF p = mapped_memory_[memory_id]
                                       THEN ByteAfterFill(host_memory[p], offset, size, data, n)
                                       ELSE host_memory[p][n]
                       ELSE /\ t.host_memory = host_memory
                            /\ t.log = <<ObjectLog("GFXRECON_LOG_WARNING", memory_id, 0, 0)>>

\* A fill of one byte at offset 1 of an indexed pointer changes the second byte
\* of its region and leaves the first, while another memory id is not indexed.
C20_Witness ==
    /\ \E memory_id \in Keys(mapped_memory_) :
           \E t \in FillMemoryResult(NowW, memory_id, 1, 1, <<1>>) :
               /\ host_memory[mapped_memory_[memory_id]] = <<1, 0>>
               /\ t.host_memory[mapped_memory_[memory_id]] = <<1, 1>>
    /\ \E memory_id \in MemoryIds \ Keys(mapped_memory_) :
           \E t \in FillMemoryResult(NowW, memory_id, 0, 1, <<1>>) : t.log # <<>>

\* C19: the first GetGpuVirtualAddress on a resource in which both addresses
\* are non-zero fixes the resource's (capture_address_, replay_address_) pair
\* and adds one entry to gpu_va_map_; every later call on the resource leaves
\* the pair and the map as they are, whatever addresses it sees; a call in
\* which either address is zero records nothing.
C19_FirstAddressAuthoritative ==
    \A id \in Resources, original_result \in Addresses, replay_result \in Addresses :
        LET before == object_info_table_[id].extra_info
            recorded == before.extra_info_type = "kID3D12ResourceInfo" /\ before.capture_address_ # 0
        IN \A t \in GetGpuVirtualAddressResult(NowW, id, original_result, replay_result) :
               LET after == t.object_info_table_[id].extra_info
               IN /\ \A other \in ObjectIds \ {id} :
                         t.object_info_table_[other] = object_info_table_[other]
                  /\ IF original_result = 0 \/ replay_result = 0
                     THEN /\ t.object_info_table_ = object_info_table_
                          /\ t.gpu_va_map_ = gpu_va_map_
                     ELSE IF recorded
                     THEN /\ after.capture_address_ = before.capture_address_
                          /\ after.replay_address_ = before.replay_address_
                          /\ t.gpu_va_map_ = gpu_va_map_
                     ELSE /\ after.capture_address_ = original_result
                          /\ after.replay_address_ = replay_result
                          /\ t.gpu_va_map_ =
                                 gpu_va_map_ \cup {GpuVaEntry(id, original_result, replay_result)}
                          /\ Cardinality(t.gpu_va_map_) = Cardinality(gpu_va_map_) + 1

\* A resource whose pair is recorded is asked again and sees two other non-zero
\* addresses.
C19_Witness ==
    \E id \in Resources :
        LET before == object_info_table_[id].extra_info
        IN /\ before.extra_info_type = "kID3D12ResourceInfo"
           /\ before.capture_address_ = 1
           /\ before.replay_address_ = 2
           /\ \E t \in GetGpuVirtualAddressResult(NowW, id, 2, 1) :
                  t.gpu_va_map_ = {GpuVaEntry(id, 1, 2)}

\* C17 (as claimed): every allocation made by CreateHeapAllocation is released
\* exactly once over the run including shutdown: none is released twice, and
\* once the consumer is destroyed none is left allocated, for any sequence of
\* CreateHeapAllocation, OpenExistingHeapFromAddress and Release, a repeated id
\* included.
C17_ReleasedExactlyOnce ==
    /\ \A p \in Pointers : virtual_memory[p] # "released twice"
    /\ consumer = "destroyed" => \A p \in Pointers : virtual_memory[p] \in {"unused", "released"}

\* C18: OpenExistingHeapFromAddress(id) with id in the pool erases the pool
\* entry whether the driver call succeeds or fails; on success the pointer is
\* the new heap record's external_allocation and stays allocated, on failure it
\* is released at once.  With id not in the pool the driver is not called, a
\* failure code is returned, and the pool and all records are unchanged.
C18_OpenExistingHeap ==
    \A allocation_id \in AllocationIds, heap \in FreshObject, replay_result \in HResults :
        \A t \in OpenExistingHeapFromAddressResult(NowW, allocation_id, heap, replay_result) :
            LET called == \E n \in 1..Len(t.log) :
                              t.log[n].call = "ID3D12Device3::OpenExistingHeapFromAddress"
                result == t.log[Len(t.log)]
            IN IF allocation_id \in Keys(heap_allocations_)
               THEN LET pointer == heap_allocations_[allocation_id]
                    IN /\ called
                       /\ result = ReturnLog(replay_result)
                       /\ Keys(t.heap_allocations_) = Keys(heap_allocations_) \ {allocation_id}
                       /\ \A other \in Keys(t.heap_allocations_) :
                              t.heap_allocations_[other] = heap_allocations_[other]
                       /\ \A other \in ObjectIds \ {heap} :
                              t.object_info_table_[other] = object_info_table_[other]
                       /\ IF replay_result >= 0
                          THEN /\ t.object_info_table_[heap].live
                               /\ t.object_info_table_[heap].extra_info.extra_info_type = "kID3D12HeapInfo"
                               /\ t.object_info_table_[heap].extra_info.external_allocation = pointer
                               /\ t.virtual_memory = virtual_memory
                          ELSE /\ t.object_info_table_ = object_info_table_
                               /\ t.virtual_memory =
                                      [virtual_memory EXCEPT ![pointer] = "released"]
               ELSE /\ ~called
                    /\ result = ReturnLog(E_FAIL)
                    /\ result.result < 0
                    /\ t.heap_allocations_ = heap_allocations_
                    /\ t.object_info_table_ = object_info_table_
                    /\ t.virtual_memory = virtual_memory

\* One allocation id is in the pool and another is not, while a heap record
\* that adopted an earlier allocation is live.
C18_Witness ==
    /\ Keys(heap_allocations_) # {}
    /\ AllocationIds \ Keys(heap_allocations_) # {}
    /\ FreshObject # {}
    /\ \E id \in LiveObjects :
           object_info_table_[id].extra_info.extra_info_type = "kID3D12HeapInfo"

RECURSIVE MapTimes(_, _, _, _, _, _)
\* The states after k successful Maps of (id, subresource) with memory_id.
MapTimes(w, id, subresource, memory_id, data, k) ==
    IF k = 0 THEN {w}
    ELSE UNION {MapTimes(t, id, subresource, memory_id, data, k - 1) :
                    t \in ResourceMapResult(w, id, subresource, memory_id, data, TRUE)}

RECURSIVE UnmapTimes(_, _, _, _)
\* The states after k Unmaps of (id, subresource).
UnmapTimes(w, id, subresource, k) ==
    IF k = 0 THEN {w}
    ELSE UNION {UnmapTimes(t, id, subresource, k - 1) :
                    t \in ResourceUnmapResult(w, id, subresource)}

\* Whether record id of state w has a mapped_memory_info entry for the subresource.
HasMapping(w, id, subresource) ==
    LET extra_info == w.object_info_table_[id].extra_info
    IN /\ extra_info.extra_info_type = "kID3D12ResourceInfo"
       /\ subresource \in DOMAIN extra_info.mapped_memory_info

\* C21: map counts nest.  A subresource with no recorded mapping that is mapped
\* k times with one memory id keeps the index entry of that id through the
\* first k-1 Unmaps, with the count going down by one each time; the k-th Unmap
\* removes the index entry and the subresource's mapped_memory_info entry.  An
\* Unmap of a subresource with no recorded mapping changes nothing.
C21_MapCountsNest ==
    \A id \in Resources, subresource \in Subresources :
        ~HasMapping(NowW, id, subresource) =>
            /\ ResourceUnmapResult(NowW, id, subresource) = {NowW}
            /\ \A memory_id \in MemoryIds, data \in HostPointers, k \in 1..MaxMapCount :
                   \A w \in MapTimes(NowW, id, subresource, memory_id, data, k) :
                       /\ \A j \in 0..(k - 1) :
                              \A u \in UnmapTimes(w, id, subresource, j) :
                                  /\ memory_id \in Keys(u.mapped_memory_)
                                  /\ u.mapped_memory_[memory_id] = data
                                  /\ HasMapping(u, id, subresource)
                                  /\ u.object_info_table_[id].extra_info.mapped_memory_info[subresource]
                                         = [memory_id |-> memory_id, count |-> k - j]
                       /\ \A u \in UnmapTimes(w, id, subresource, k) :
                              /\ memory_id \notin Keys(u.mapped_memory_)
                              /\ ~HasMapping(u, id, subresource)

\* A subresource is mapped MaxMapCount times with an indexed memory id while
\* the other subresource of the same resource has no recorded mapping.
C21_Witness ==
    \E id \in Resources, subresource \in Subresources, other \in Subresources :
        /\ HasMapping(NowW, id, subresource)
        /\ ~HasMapping(NowW, id, other)
        /\ LET memory_info == object_info_table_[id].extra_info.mapped_memory_info[subresource]
           IN /\ memory_info.count = MaxMapCount
              /\ memory_info.memory_id \in Keys(mapped_memory_)

\* C22: CheckReplayResult(capture, replay) reports nothing when the results
\* are equal; when they differ and the replay result is device-removed it logs
\* at fatal severity and calls the fatal error handler once, if one is set;
\* when they differ otherwise it only logs a warning and the handler is not
\* called.
C22_CheckReplayResult ==
    \A capture_result \in CheckedResults, replay_result \in CheckedResults :
        LET r == CheckReplayResult(fatal_errors, fatal_error_handler_, capture_result, replay_result)
        IN IF capture_result = replay_result
           THEN r.log = <<>> /\ r.fatal_errors = fatal_errors
           ELSE IF replay_result = DXGI_ERROR_DEVICE_REMOVED
           THEN /\ r.log = <<"GFXRECON_LOG_FATAL">>
                /\ r.fatal_errors = IF fatal_error_handler_ = NULL THEN fatal_errors
                                    ELSE fatal_errors \o <<replay_result>>
           ELSE /\ r.log = <<"GFXRECON_LOG_WARNING">>
                /\ r.fatal_errors = fatal_errors

\* The handler is set and has been called for a device-removed result of a
\* replayed CheckFeatureSupport.
C22_Witness ==
    /\ fatal_error_handler_ # NULL
    /\ fatal_errors = <<DXGI_ERROR_DEVICE_REMOVED>>
    /\ LiveOf("ID3D12Device") # {}

\* C27 (as claimed): every fatal-category error calls the fatal error handler:
\* a host heap allocation that cannot be created, and a fence operation on a
\* record without extra_info, which also leaves the synchronizer state as it
\* was.
C27_FatalErrorsRaised ==
    fatal_error_handler_ # NULL =>
    /\ \A allocation_id \in AllocationIds :
           \A t \in CreateHeapAllocationResult(NowW, allocation_id, NULL) :
               \E n \in 1..Len(t.log) : t.log[n].call = "RaiseFatalError"
    /\ \A f \in Fences \ CreatedFences, value \in Values, event_object \in Events :
           \A t \in SetEventOnCompletionResult(Now, f, value, event_object, TRUE, TRUE) :
               /\ \E n \in 1..Len(t.log) : t.log[n].call = "RaiseFatalError"
               /\ t.fences = fences
               /\ t.queues = queues

\* The events GetEventObject(kInternalEventId, true) can return from here:
\* the cached or newly created handle, or nullptr when creation fails.
InternalEvents ==
    {GetEventObjectHandle(host_events, kInternalEventId, TRUE, create_ok).event :
         create_ok \in BOOLEAN}

C24_WaitsComplete ==
    (wait # NoWait) ~> (wait = NoWait)

\* C30: GetEventObject returns the cached handle of an event id for as long as
\* the id is cached, and no two ids share a handle: one event is created per
\* id.  A cached event is reset to unsignaled if and only if the reset flag is
\* true, a newly created event starts unsignaled, and when the creation fails
\* nothing is cached and null is returned.
C30_EventRegistry ==
    /\ [](\A event_id \in EventIds, reset \in BOOLEAN, create_ok \in BOOLEAN :
              LET got == GetEventObjectHandle(host_events, event_id, reset, create_ok)
                  after == got.host_events
              IN IF event_id \in DOMAIN host_events.handle
                 THEN /\ got.event = host_events.handle[event_id]
                      /\ after.handle = host_events.handle
                      /\ after.created = host_events.created
                      /\ after.signaled = IF reset THEN host_events.signaled \ {got.event}
                                          ELSE host_events.signaled
                 ELSE IF create_ok
                 THEN /\ got.event # NULL
                      /\ got.event \notin Handles(host_events)
                      /\ got.event \notin after.signaled
                      /\ after.handle = MapPut(host_events.handle, event_id, got.event)
                      /\ after.signaled = host_events.signaled
                 ELSE /\ got.event = NULL
                      /\ after = host_events)
    /\ [](\A a \in DOMAIN host_events.handle, b \in DOMAIN host_events.handle :
              host_events.handle[a] = host_events.handle[b] => a = b)
    /\ [][\A event_id \in DOMAIN host_events.handle :
              /\ event_id \in DOMAIN host_events'.handle
              /\ host_events'.handle[event_id] = host_events.handle[event_id]]_vars

\* Both a capture event and the internal event are cached, one of them signaled.
C30_Witness ==
    /\ DOMAIN host_events.handle = EventIds
    /\ host_events.signaled # {}
    /\ host_events.signaled # Handles(host_events)

\* The positions in lg of the entries of call `call`.
Positions(lg, call) == {n \in 1..Len(lg) : lg[n].call = call}

\* What a Release of record id does apart from the order of its steps: the
\* ref_count goes down by one, the record is destroyed if and only if both
\* counters are then 0, and the driver's Release is called once, on the object
\* of the record.
ReleaseEffect(id, t) ==
    LET before == object_info_table_[id]
        destroyed == before.ref_count = 1 /\ before.extra_ref = 0
        released == Positions(t.log, "object->Release")
    IN /\ Cardinality(released) = 1
       /\ \A n \in released : t.log[n].id = id
       /\ IF destroyed
          THEN /\ ~t.object_info_table_[id].live
               /\ Positions(t.log, "RemoveObject") # {}
               /\ \E n \in Positions(t.log, "RemoveObject") : t.log[n].id = id
          ELSE /\ t.object_info_table_[id] = [before EXCEPT !.ref_count = @ - 1]
               /\ Positions(t.log, "RemoveObject") = {}

ReleasableObjects == {id \in LiveObjects : object_info_table_[id].ref_count > 0}

C26_TeardownRemovesEntries ==
    /\ \A f \in ReferencedFences(Now) : fences[f].created
    /\ \A q \in ReferencedQueues(Now) : queues[q].created

\* How often the call was made for id, and where the teardown starts in a log.
Count(lg, call, id) == Cardinality({n \in 1..Len(lg) : lg[n].call = call /\ lg[n].id = id})

TeardownCalls == {"object->Release", "CloseHandle", "window_factory_->Destroy", "VirtualFree"}

FirstTeardown(lg) ==
    LET at == {n \in 1..Len(lg) : lg[n].call \in TeardownCalls}
    IN IF at = {} THEN Len(lg) + 1 ELSE SetMin(at)

\* The destructor can run: the replay thread is not inside a call.
AtShutdown == consumer = "replaying" /\ wait = NoWait

\* The log has a signal on the queue of record id and then a wait, before the
\* teardown starts.
SignalledAndWaited(lg, id) ==
    \E n \in 1..Len(lg), m \in 1..Len(lg) :
        /\ n < m /\ m < FirstTeardown(lg)
        /\ lg[n].call = "ID3D12CommandQueue::Signal" /\ lg[n].id = id
        /\ lg[m].call = "WaitForSingleObject" /\ lg[m].id = id /\ lg[m].value = INFINITE

\* After shutdown everything is empty, each cached event was closed once and
\* each record's object was released ref_count times.
ShutDown(t) ==
    /\ \A id \in ObjectIds : t.object_info_table_[id] = NoObject
    /\ t.host_events.handle = <<>>
    /\ t.heap_allocations_ = <<>>
    /\ t.active_windows_ = {}
    /\ t.window_handles_ = <<>>
    /\ \A h \in {host_events.handle[e] : e \in DOMAIN host_events.handle}
                    \cup ((host_events.created + 1)..t.host_events.created) :
           Count(t.log, "CloseHandle", h) = 1
    /\ \A id \in LiveObjects : Count(t.log, "object->Release", id) = object_info_table_[id].ref_count

CanWaitFor(id, outcomes) ==
    /\ \/ kInternalEventId \in DOMAIN host_events.handle
       \/ \E other \in CommandQueueRecords(NowW) : other <= id /\ outcomes[other].create_ok
    /\ \/ queues[object_info_table_[id].extra_info.queue].sync_fence # NULL
       \/ outcomes[id].device_ok /\ outcomes[id].fence_ok

SyncedQueues == {q \in CreatedQueues : queues[q].sync_event # NULL}

\* The sync values a queue's state still shows as used: those of its deferred
\* sync signals and those its sync event is registered under.
UsedSyncValues(q) ==
    {queues[q].pending_events[n].value :
        n \in {m \in 1..Len(queues[q].pending_events) :
                  queues[q].pending_events[m].fence_info = SyncFence(q)}}
        \cup Keys(fences[SyncFence(q)].waiting_objects)
        \cup {queues[q].sync_value}

\* C29: with the --sync option a non-empty ExecuteCommandLists on a queue that
\* has a sync event signals the sync fence with a sync_value greater than every
\* sync value used on the queue before, WaitIdle included; when pending_events
\* is empty it waits for the sync event before it returns and leaves
\* pending_events empty, otherwise it does not wait, appends exactly one signal
\* entry (sync fence, sync_value) at the tail of pending_events and registers
\* the sync event under the sync fence's waiting_objects[sync_value].
C29_SyncSubmissions ==
    /\ \A q \in SyncedQueues :
           LET info == queues[q]
           IN \A t \in ExecuteCommandListsResult(Now, q, TRUE, FALSE) :
                  LET sync_value == t.queues[q].sync_value
                  IN /\ \A used \in UsedSyncValues(q) : sync_value > used
                     /\ \E n \in 1..Len(t.log) :
                            /\ t.log[n].call = "ID3D12CommandQueue::Signal"
                            /\ t.log[n].fence = info.sync_fence
                            /\ t.log[n].value = sync_value
                     /\ \A other \in Queues \ {q} : t.queues[other] = queues[other]
                     /\ \A f \in AllFences \ {SyncFence(q)} : t.fences[f] = fences[f]
                     /\ IF info.pending_events = <<>>
                        THEN /\ t.log[Len(t.log)].call = "WaitForSingleObject"
                             /\ t.log[Len(t.log)].key = info.sync_event
                             /\ t.queues[q].pending_events = <<>>
                             /\ t.fences = fences
                        ELSE /\ ~Waits(t.log)
                             /\ t.queues[q].pending_events =
                                    Append(info.pending_events,
                                           [is_wait |-> FALSE, is_signaled |-> FALSE,
                                            fence_info |-> SyncFence(q), value |-> sync_value])
                             /\ sync_value \in Keys(t.fences[SyncFence(q)].waiting_objects)
                             /\ t.fences[SyncFence(q)].waiting_objects[sync_value].wait_events
                                    = <<info.sync_event>>
                             /\ \A k \in Keys(fences[SyncFence(q)].waiting_objects) :
                                    t.fences[SyncFence(q)].waiting_objects[k]
                                        = fences[SyncFence(q)].waiting_objects[k]
    /\ \A outcomes \in [CommandQueueRecords(NowW) -> DriverOutcomes] :
           LET t == WaitIdle(NowW, CommandQueueRecords(NowW), outcomes)
           IN \A id \in CommandQueueRecords(NowW) :
                  LET q == object_info_table_[id].extra_info.queue
                  IN /\ t.queues[q].sync_value >= queues[q].sync_value
                     /\ queues[q].sync_fence # NULL =>
                            \A n \in 1..Len(t.log) :
                                t.log[n].call = "ID3D12CommandQueue::Signal" /\ t.log[n].id = id
                                    => /\ t.log[n].value = t.queues[q].sync_value
                                       /\ \A used \in UsedSyncValues(q) : t.log[n].value > used

\* A queue whose pending_events already holds a deferred sync signal behind a
\* wait gets a second one, with the next sync value.
C29_Witness ==
    \E q \in SyncedQueues :
        /\ queues[q].sync_value >= 1
        /\ Len(queues[q].pending_events) >= 2
        /\ queues[q].pending_events[1].is_wait
        /\ queues[q].pending_events[Len(queues[q].pending_events)].fence_info = SyncFence(q)
        /\ \E t \in ExecuteCommandListsResult(Now, q, TRUE, FALSE) :
               /\ Len(t.queues[q].pending_events) = Len(queues[q].pending_events) + 1
               /\ t.queues[q].sync_value = queues[q].sync_value + 1
               /\ Cardinality(Keys(t.fences[SyncFence(q)].waiting_objects)) >= 2

\* C31: between replayed operations each queue's pending_events is empty or
\* has at its head a wait entry that is not signaled; a signal entry or a
\* signaled wait is never left at the head.
C31_QueueHead ==
    \A q \in Queues :
        queues[q].pending_events # <<>> =>
            /\ Head(queues[q].pending_events).is_wait
            /\ ~Head(queues[q].pending_events).is_signaled

\* A drain stopped at an unsignaled wait at the head while a wait behind it is
\* already marked signaled.
C31_Witness ==
    \E q \in Queues :
        /\ Len(queues[q].pending_events) >= 2
        /\ Head(queues[q].pending_events).is_wait
        /\ ~Head(queues[q].pending_events).is_signaled
        /\ \E n \in 2..Len(queues[q].pending_events) :
               queues[q].pending_events[n].is_wait /\ queues[q].pending_events[n].is_signaled

\* The unsignaled wait entries of queue q on fence f at value v.
UnsignaledWaits(q, f, v) ==
    {n \in 1..Len(queues[q].pending_events) :
        /\ queues[q].pending_events[n].is_wait
        /\ ~queues[q].pending_events[n].is_signaled
        /\ queues[q].pending_events[n].fence_info = f
        /\ queues[q].pending_events[n].value = v}

\* The queues listed in wait_queues of fence f under key v.
WaitQueuesAt(f, v) ==
    IF v \in Keys(fences[f].waiting_objects)
    THEN {fences[f].waiting_objects[v].wait_queues[n] :
             n \in 1..Len(fences[f].waiting_objects[v].wait_queues)}
    ELSE {}

\* C32 (as claimed): between replayed operations, for every unsignaled wait
\* entry on (F, v) in a queue Q's pending_events, F.waiting_objects has key v
\* and Q is in its wait_queues; and every queue listed in a fence's wait_queues
\* under key v has an unsignaled wait entry on (F, v).
C32_NoLostWakeup ==
    \A q \in Queues, f \in Fences, v \in Values :
        /\ UnsignaledWaits(q, f, v) # {} => q \in WaitQueuesAt(f, v)
        /\ q \in WaitQueuesAt(f, v) => UnsignaledWaits(q, f, v) # {}

\* C33 (as claimed): a wait entry is resolved when a signal of its fence with a
\* value at or above the wait's value is processed: no queue keeps an
\* unsignaled wait on (F, v) once F.last_signaled_value, the value of the last
\* processed signal of F, has reached v.
C33_WaitsResolved ==
    \A q \in Queues :
        \A n \in 1..Len(queues[q].pending_events) :
            LET entry == queues[q].pending_events[n]
            IN entry.is_wait /\ ~entry.is_signaled
                   => entry.value > fences[entry.fence_info].last_signaled_value

\* C34 (as claimed): while ProcessFenceSignal iterates F.waiting_objects no
\* drained signal entry leads back into ProcessFenceSignal on F, no element of
\* the iterated range is erased under the loop, and when the outermost call
\* returns F.last_signaled_value is the value it signaled.
C34_NoReentry ==
    \A f \in CreatedFences, value \in Values :
        \A t \in FenceSignalResult(Now, f, value, TRUE, TRUE) :
            /\ \A n \in 1..Len(t.log) :
                   /\ ~(t.log[n].call = "pop_signal" /\ t.log[n].fence = f)
                   /\ t.log[n].call # "InvalidIterator"
            /\ t.fences[f].last_signaled_value = value

\* The slots of live swap chain records that hold record r.
SlotsHolding(r) ==
    {<<id, i>> \in ObjectIds \X (1..MaxBuffers) :
        /\ object_info_table_[id].live
        /\ object_info_table_[id].extra_info.extra_info_type = "kIDxgiSwapchainInfo"
        /\ i <= object_info_table_[id].extra_info.image_count
        /\ object_info_table_[id].extra_info.images[i] = r}

\* C35 (as claimed): before shutdown every non-empty swap chain slot refers to
\* a record that is in the table and has extra_ref >= 1, each record's
\* extra_ref is the number of slots that hold it, and extra_ref is never
\* below 0.
C35_ExtraRefCountsSlots ==
    consumer = "replaying" =>
        \A r \in ObjectIds :
            /\ SlotsHolding(r) # {} => object_info_table_[r].live /\ object_info_table_[r].extra_ref >= 1
            /\ object_info_table_[r].extra_ref = Cardinality(SlotsHolding(r))
            /\ object_info_table_[r].extra_ref >= 0

\* The windows of the live swap-chain records of w.
SwapchainWindows(w) ==
    {w.object_info_table_[id].extra_info.window :
        id \in {r \in ObjectIds : /\ w.object_info_table_[r].live
                                   /\ w.object_info_table_[r].extra_info.extra_info_type
                                          = "kIDxgiSwapchainInfo"}}

\* The call that took `before` to t, and created the window `created` (NULL
\* when it created none), passed a window to Destroy at most once, only when
\* the window was active or new, and then left it out of the active set; a
\* window it did not destroy is in the active set.
DestroyedOnce(before, t, created) ==
    \A window \in ObjectIds :
        LET n == Count(t.log, "window_factory_->Destroy", window)
            had == window \in before.active_windows_ \/ window = created
        IN /\ n <= 1
           /\ n = 1 => had /\ window \notin t.active_windows_
           /\ n = 0 => (window \in t.active_windows_ <=> had)

\* C36: every window returned by WindowFactory.Create is passed to Destroy
\* exactly once over the run: at once when the handle retrieval or the driver
\* call fails, and then it is never active; at the teardown of its swap chain,
\* and then it leaves the active set; or by the sweep of the destructor, which
\* leaves no window active. The active windows are those of the live swap chains.
C36_WindowDestroyedOnce ==
    consumer = "replaying" =>
        /\ active_windows_ = SwapchainWindows(NowW)
        /\ \A id \in FreshObject, hwnd_id \in HwndIds, buffer_count \in 1..MaxBuffers,
              replay_ok \in BOOLEAN :
            \A window \in {NULL, id} :
             \A hwnd \in {NULL, window} :
               \A t \in CreateSwapChainResult(NowW, id, hwnd_id, buffer_count, window, hwnd, replay_ok) :
                   /\ DestroyedOnce(NowW, t, window)
                   /\ window # NULL /\ (hwnd = NULL \/ ~replay_ok)
                          => Count(t.log, "window_factory_->Destroy", window) = 1
        /\ \A id \in LiveObjects :
               object_info_table_[id].ref_count > 0 =>
                   \A t \in ReleaseResult(NowW, id) : DestroyedOnce(NowW, t, NULL)
        /\ \A outcomes \in [CommandQueueRecords(NowW) -> DriverOutcomes] :
               \A t \in DestructorResult(NowW, outcomes) :
                   DestroyedOnce(NowW, t, NULL) /\ t.active_windows_ = {}

\* A swap chain with an active window next to a free capture id: a release
\* tears the swap chain down, a creation can fail, the destructor sweeps.
C36_Witness ==
    /\ consumer = "replaying"
    /\ FreshObject # {}
    /\ \E id \in LiveOf("IDXGISwapChain") :
           /\ object_info_table_[id].ref_count = 1
           /\ object_info_table_[id].extra_info.window \in active_windows_
           /\ \E t \in ReleaseResult(NowW, id) :
                  Count(t.log, "window_factory_->Destroy", object_info_table_[id].extra_info.window) = 1

\* The live swap-chain records created for the window id hwnd_id.
SwapchainsOf(hwnd_id) ==
    {r \in LiveOf("IDXGISwapChain") :
        /\ object_info_table_[r].extra_info.extra_info_type = "kIDxgiSwapchainInfo"
        /\ object_info_table_[r].extra_info.hwnd_id = hwnd_id}

\* C37: a non-zero hwnd_id is a key of window_handles_ exactly when some live
\* swap-chain record has that hwnd_id, and the mapped handle is the native
\* handle of that swap chain's window, also when several swap chains were
\* created for the same hwnd_id and one of them is destroyed.
C37_WindowHandles ==
    consumer = "replaying" =>
        \A hwnd_id \in HwndIds \ {0} :
            /\ hwnd_id \in DOMAIN window_handles_ <=> SwapchainsOf(hwnd_id) # {}
            /\ \A r \in SwapchainsOf(hwnd_id) :
                   /\ hwnd_id \in DOMAIN window_handles_
                   /\ window_handles_[hwnd_id] = object_info_table_[r].extra_info.window

\* -------------------------------------------- loading the capture settings
MaxOptions == 2

RECURSIVE StringsOf(_)
\* The strings of at most n characters.
StringsOf(n) ==
    IF n = 0 THEN {<<>>}
    ELSE LET shorter == StringsOf(n - 1)
         IN shorter \cup {Append(value, c) : value \in shorter, c \in TrimChars}

TrimStrings == StringsOf(MaxTrimLen) \ {<<>>}

\* The trim ranges the settings hold before the options are processed.
TrimLists == {<<>>, <<[first |-> 1, total |-> 1]>>, <<[first |-> 1, total |-> 2]>>}

\* The options the loaders put into the map, and the values they load.
LoadedOptions ==
    [kOptionKeyCaptureCompressionType |-> {"zlib", "gzip"},
     kOptionKeyCaptureFile |-> {"capture.gfxr"},
     kOptionKeyMemoryTrackingMode |-> {"assisted"},
     kOptionDisableDxr |-> {"true", "false"},
     kOptionKeyCaptureIUnknownWrapping |-> {"true", "false"},
     unrecognized_option |-> {"true"}]

OptionMaps ==
    UNION {{m \in [keys -> UNION {LoadedOptions[k] : k \in keys}] :
                \A k \in keys : m[k] \in LoadedOptions[k]} :
           keys \in {K \in SUBSET DOMAIN LoadedOptions : Cardinality(K) <= MaxOptions}}

\* The trace settings the capture layer is constructed with.
TraceSettings ==
    {[NoTraceSettings EXCEPT !.compression_type = compression_type,
                             !.capture_file = capture_file,
                             !.disable_dxr = disable_dxr,
                             !.iunknown_wrapping = iunknown_wrapping,
                             !.page_guard_signal_handler_watcher_max_restores = max_restores] :
        compression_type \in {"kNone", "kLz4", "kZlib"}, capture_file \in {"", "gfxrecon_capture.gfxr"},
        disable_dxr \in BOOLEAN, iunknown_wrapping \in BOOLEAN, max_restores \in {0, 1}}

\* LoadSettings is entered with the options the file and the environment gave
\* and the settings the layer was constructed with.
SettingsInit ==
    /\ fences = [f \in AllFences |-> NoFenceInfo]
    /\ queues = [q \in Queues |-> NoQueueInfo]
    /\ event_objects_ = {}
    /\ ReplayObjectsInit
    /\ \/ /\ option_map \in {[kOptionKeyCaptureFrames |-> value] : value \in TrimStrings}
          /\ capture_settings \in
                 {CaptureSettings([NoTraceSettings EXCEPT !.trim_ranges = ranges]) : ranges \in TrimLists}
       \/ /\ option_map \in OptionMaps
          /\ capture_settings \in {CaptureSettings(trace_settings) : trace_settings \in TraceSettings}

\* ProcessOptions(&capture_settings, settings)
LoadSettings ==
    LET processed == ProcessOptions(option_map, capture_settings)
    IN /\ option_map' = processed.options
       /\ capture_settings' = processed.settings
       /\ UNCHANGED <<syncVars, object_info_table_, mapped_memory_, gpu_va_map_, heap_allocations_,
                      virtual_memory, host_memory, consumer, fatal_error_handler_, fatal_errors,
                      host_events, wait, active_windows_, window_handles_>>

SettingsNext == LoadSettings

SpecSettings == SettingsInit /\ [][SettingsNext]_vars

\* A range is well formed after the ranges before it in the list.
WellFormedFrom(ranges, from) ==
    \A n \in from..Len(ranges) :
        /\ ranges[n].first >= 1
        /\ ranges[n].total >= 1
        /\ n > 1 => ranges[n].first >= ranges[n - 1].first + ranges[n - 1].total

\* What an element of the list denotes: after its whitespace is removed, a
\* number, or two numbers with a '-' between them; nothing otherwise.
Denoted(element) ==
    LET range == RemoveWhitespace(element)
        IsNumber(value) == value # <<>> /\ \A n \in 1..Len(value) : isdigit(value[n])
        dashes == {n \in 1..Len(range) : range[n] = "-"}
    IN IF IsNumber(range) THEN {[first |-> stoi(range), last |-> stoi(range)]}
       ELSE {[first |-> stoi(SubSeq(range, 1, n - 1)), last |-> stoi(SubSeq(range, n + 1, Len(range)))] :
                n \in {d \in dashes : /\ IsNumber(SubSeq(range, 1, d - 1))
                                       /\ IsNumber(SubSeq(range, d + 1, Len(range)))}}

RECURSIVE TrimRangesOf(_, _)
\* The list after the elements `lines`: an element is appended when it denotes
\* a range that starts at frame 1 or later, is not reversed and starts after
\* the end of the last range of the list, and is skipped otherwise.
TrimRangesOf(lines, ranges) ==
    IF lines = <<>> THEN ranges
    ELSE LET next_allowed == IF ranges = <<>> THEN 1
                             ELSE ranges[Len(ranges)].first + ranges[Len(ranges)].total
             accepted == {r \in Denoted(Head(lines)) :
                             r.first >= 1 /\ r.last >= r.first /\ r.first >= next_allowed}
         IN TrimRangesOf(Tail(lines),
                         IF accepted = {} THEN ranges
                         ELSE LET r == CHOOSE r \in accepted : TRUE
                              IN Append(ranges, [first |-> r.first, total |-> r.last - r.first + 1]))

\* C38: ParseTrimRangeString only appends well-formed ranges: the list it is
\* given stays as a prefix, each appended range has first >= 1, total >= 1 and
\* first >= previous.first + previous.total, and every malformed, zero-start,
\* reversed or overlapping element is skipped without changing the list.
C38_TrimRangesWellFormed ==
    LET value_string == FindOption(option_map, "kOptionKeyCaptureFrames", <<>>)
        ranges == capture_settings.trace_settings_.trim_ranges
        parsed == ParseTrimRangeString(value_string, ranges)
    IN /\ Len(parsed) >= Len(ranges)
       /\ SubSeq(parsed, 1, Len(ranges)) = ranges
       /\ WellFormedFrom(parsed, Len(ranges) + 1)
       /\ parsed = TrimRangesOf(GetLines(value_string, ","), ranges)
       /\ WellFormedFrom(ranges, 1)

\* Options with a range that is appended behind an element that is skipped.
C38_Witness ==
    /\ "kOptionKeyCaptureFrames" \in DOMAIN option_map
    /\ LET value_string == option_map["kOptionKeyCaptureFrames"]
           ranges == capture_settings.trace_settings_.trim_ranges
           lines == GetLines(value_string, ",")
       IN /\ Len(lines) = 2
          /\ ParseTrimRange(lines[1], ranges) = ranges
          /\ Len(ParseTrimRangeString(value_string, ranges)) = Len(ranges) + 1
          /\ ranges # <<>>

\* The settings ProcessOptions reads with one key each, and the key.
ScalarOptions ==
    [field \in DOMAIN TraceBoolOptions
                  \cup (DOMAIN TraceOptions \ {"trim_ranges", "trim_key", "trim_key_frames",
                                               "screenshot_ranges"}) |->
        IF field \in DOMAIN TraceBoolOptions THEN TraceBoolOptions[field] ELSE TraceOptions[field]]

\* C39: ProcessOptions leaves a setting untouched when its option is absent:
\* a boolean, integer, string or enum setting whose key is not in the options
\* map has the same value after the call as before it.
C39_AbsentOptionKeepsSetting ==
    LET processed == ProcessOptions(option_map, capture_settings)
    IN /\ \A field \in DOMAIN ScalarOptions :
              ScalarOptions[field] \notin DOMAIN option_map
                  => processed.settings.trace_settings_[field] = capture_settings.trace_settings_[field]
       /\ \A field \in DOMAIN LogBoolOptions :
              LogBoolOptions[field] \notin DOMAIN option_map
                  => processed.settings.log_settings_[field] = capture_settings.log_settings_[field]

====
